---------------------------- MODULE Spec2Model ----------------------------
(***************************************************************************)
(* Model of the ingestion-and-enrichment pipeline of scam.web.id           *)
(* (convex/reddit.ts, convex/aiAnalyzer.ts, convex/scrape/firecrawl.ts,    *)
(* convex/schema.ts).                                                      *)
(*                                                                         *)
(* Convex mutations and queries are serializable transactions: each is one *)
(* atomic step.  Convex actions are not: an action yields at every await,  *)
(* so an action is a process whose steps are the calls it awaits.          *)
(*                                                                         *)
(* The module holds several specifications over the same tables:           *)
(*   SpecIngest   the deduplicating ingestion store                        *)
(*   SpecAgg      the per-location aggregator                              *)
(*   SpecBatch    the batch scheduler fetchBatch and its driver            *)
(*   SpecEnrich   the enrichment engine, one job invocation at a time      *)
(*   SpecOverlap  the enrichment engine, two overlapping job invocations   *)
(***************************************************************************)
EXTENDS Integers, Sequences, FiniteSets

VARIABLES
    scamStories,    \* table scamStories: sequence of rows, _id = position
    scamComments,   \* table scamComments: sequence of rows
    locationStats,  \* table locationStats: sequence of rows
    ret,            \* what the last mutation call returned
    fb,             \* fetchBatch and its driver: one record
    visits,         \* fetchRedditPosts invocations per work-unit index
    run,            \* enrichment invocations: runner -> record
    llmConfigured,  \* LLM_API_KEY, LLM_API_URL and LLM_API_MODEL are all set
    runsStarted,    \* number of enrichment jobs started so far
    redditFetchJobs, \* table redditFetchJobs: sequence of rows
    fr,             \* the fetchRedditPosts invocation under way: one record
    geocall,        \* the geocoder call under way: one record
    geocodeCache,   \* the geocoder's Map geocodeCache: cache key -> coordinates
    elapsed,        \* minutes since the enrichment job under way was started
    recorded,       \* history: how many incidents of each category were
                    \* recorded, or which locations were resolved
    userReports     \* table userReports: sequence of rows

vars == <<scamStories, scamComments, locationStats, ret, fb, visits, run,
          llmConfigured, runsStarted, redditFetchJobs, fr, geocall, geocodeCache, elapsed,
          recorded, userReports>>

-----------------------------------------------------------------------------
(* Bounds of the model *)

\* rows a table may grow to (reached only when de-duplication is broken)
MaxRows == 3
\* comments in one storeBatchComments call
MaxBatch == 2
\* incidents recorded for the one location of SpecAgg
MaxIncidents == 6

\* .take(1000) in storeBatchComments
ExistingTake == 1000
\* topScamTypes.slice(0, 5)
TopN == 5

PostIds == {"p1", "p2"}
CommentIds == {"c1", "c2"}

\* scamTypes of the schema that the model draws incidents from
IncidentTypes == {"taxi", "tour", "atm", "visa", "police", "airport"}
\* moneyLost arguments: <<>> is "not given"
Losses == {<<>>, <<4>>}
\* coordinates arguments: <<>> is "not given"
CoordArgs == {<<>>, <<"geo1">>, <<"geo2">>}

-----------------------------------------------------------------------------
(* Helpers over tables *)

\* the positions S of a table, in table order (the order a query returns rows in)
RECURSIVE InOrder(_)
InOrder(S) ==
    IF S = {} THEN <<>>
    ELSE LET m == CHOOSE x \in S : \A y \in S : x <= y
         IN <<m>> \o InOrder(S \ {m})

\* .take(n)
Take(s, n) == IF Len(s) <= n THEN s ELSE SubSeq(s, 1, n)

\* .first(): position of the first row with this postId, 0 when there is none
FirstStoryByPostId(stories, p) ==
    LET m == InOrder({k \in 1..Len(stories) : stories[k].postId = p})
    IN IF m = <<>> THEN 0 ELSE m[1]

\* the row storeRawPost and storeScrapedPost insert
NewStory(p) ==
    [postId |-> p,
     summary |-> "",
     country |-> "Unknown",
     city |-> <<>>,
     scamType |-> "other",
     aiConfidenceScore |-> 0,
     verificationStatus |-> "unverified",
     coordinates |-> <<>>,
     isProcessed |-> FALSE,
     processingErrors |-> <<>>,
     processingAttempts |-> 0]

\* the row storeRawComment and storeBatchComments insert
\* (isAnalyzedForScam is left undefined)
NewRawComment(sid, c) ==
    [storyId |-> sid, redditCommentId |-> c, isHelpful |-> FALSE,
     containsAdvice |-> FALSE, isAnalyzedForScam |-> "undefined"]

\* the row storeScrapedComment inserts
NewScrapedComment(sid, c) ==
    [storyId |-> sid, redditCommentId |-> c, isHelpful |-> FALSE,
     containsAdvice |-> FALSE, isAnalyzedForScam |-> "false"]

FirstComment(comments, sid, c) ==
    LET m == InOrder({k \in 1..Len(comments) :
                         comments[k].storyId = sid /\ comments[k].redditCommentId = c})
    IN IF m = <<>> THEN 0 ELSE m[1]

-----------------------------------------------------------------------------
(* The deduplicating ingestion store *)

otherThanIngest == <<locationStats, fb, visits, run, llmConfigured, runsStarted,
                     redditFetchJobs, fr, geocall, geocodeCache, elapsed,
          recorded,
    userReports>>

\* storeRawPost: looks the post up with .unique(), which throws when several
\* rows match; inserts when there is none
storeRawPostAlways(p) ==
    /\ Len(scamStories) < MaxRows
    /\ scamStories' = Append(scamStories, NewStory(p))
    /\ ret' = [op |-> "storeRawPost", arg |-> p, result |-> "inserted"]
    /\ UNCHANGED scamComments

storeRawPost(p) ==
    LET existing == InOrder({k \in 1..Len(scamStories) : scamStories[k].postId = p})
    IN /\ Len(scamStories) < MaxRows
       /\ IF Len(existing) > 1
          THEN /\ ret' = [op |-> "storeRawPost", arg |-> p, result |-> "threw"]
               /\ UNCHANGED scamStories
          ELSE IF existing = <<>>
          THEN /\ scamStories' = Append(scamStories, NewStory(p))
               /\ ret' = [op |-> "storeRawPost", arg |-> p, result |-> "inserted"]
          ELSE /\ ret' = [op |-> "storeRawPost", arg |-> p, result |-> "not_inserted"]
               /\ UNCHANGED scamStories
       /\ UNCHANGED scamComments

\* storeScrapedPost: .first() on the postId, inserts when there is none
storeScrapedPost(p) ==
    /\ Len(scamStories) < MaxRows
    /\ IF FirstStoryByPostId(scamStories, p) = 0
       THEN scamStories' = Append(scamStories, NewStory(p))
       ELSE UNCHANGED scamStories
    /\ ret' = [op |-> "storeScrapedPost", arg |-> p, result |-> "void"]
    /\ UNCHANGED scamComments

\* storeRawComment without the test for the story
storeRawCommentUnchecked(c, p) ==
    LET sid == FirstStoryByPostId(scamStories, p)
    IN /\ Len(scamComments) < MaxRows
       /\ IF FirstComment(scamComments, sid, c) = 0
          THEN scamComments' = Append(scamComments, NewRawComment(sid, c))
          ELSE UNCHANGED scamComments
       /\ ret' = [op |-> "storeRawComment", arg |-> c, result |-> "void"]
       /\ UNCHANGED scamStories

\* storeRawComment: drops the comment when the post is not stored
storeRawComment(c, p) ==
    LET sid == FirstStoryByPostId(scamStories, p)
    IN /\ Len(scamComments) < MaxRows
       /\ IF sid # 0 /\ FirstComment(scamComments, sid, c) = 0
          THEN scamComments' = Append(scamComments, NewRawComment(sid, c))
          ELSE UNCHANGED scamComments
       /\ ret' = [op |-> "storeRawComment", arg |-> c, result |-> "void"]
       /\ UNCHANGED scamStories

storeScrapedComment(c, p) ==
    LET sid == FirstStoryByPostId(scamStories, p)
    IN /\ Len(scamComments) < MaxRows
       /\ IF sid # 0 /\ FirstComment(scamComments, sid, c) = 0
          THEN scamComments' = Append(scamComments, NewScrapedComment(sid, c))
          ELSE UNCHANGED scamComments
       /\ ret' = [op |-> "storeScrapedComment", arg |-> c, result |-> "void"]
       /\ UNCHANGED scamStories

\* the loop of storeBatchComments: existingIds is computed once, before the
\* loop, and is not extended by the loop's own inserts
RECURSIVE InsertNew(_, _, _, _)
InsertNew(comments, sid, existingIds, batch) ==
    IF batch = <<>> THEN comments
    ELSE IF Head(batch).id \in existingIds
         THEN InsertNew(comments, sid, existingIds, Tail(batch))
         ELSE InsertNew(Append(comments, NewRawComment(sid, Head(batch).id)),
                        sid, existingIds, Tail(batch))

\* storeBatchComments: the story is that of comments[0].postId
storeBatchComments(batch) ==
    IF batch = <<>>
    THEN /\ ret' = [op |-> "storeBatchComments", arg |-> "", result |-> "0"]
         /\ UNCHANGED <<scamStories, scamComments>>
    ELSE
    LET postId == batch[1].postId
        sid == FirstStoryByPostId(scamStories, postId)
        existingComments ==
            Take(InOrder({k \in 1..Len(scamComments) : scamComments[k].storyId = sid}),
                 ExistingTake)
        existingIds == {scamComments[existingComments[k]].redditCommentId :
                            k \in 1..Len(existingComments)}
        after == InsertNew(scamComments, sid, existingIds, batch)
    IN /\ Len(scamComments) + Len(batch) <= MaxRows + 1
       /\ IF sid = 0
          THEN UNCHANGED scamComments
          ELSE scamComments' = after
       /\ ret' = [op |-> "storeBatchComments", arg |-> postId, result |-> "n"]
       /\ UNCHANGED scamStories

BatchItems == [id : CommentIds, postId : PostIds]
Batches == UNION {[1..n -> BatchItems] : n \in 0..MaxBatch}

NoFetch == [pc |-> "off"]
NoCall == [pc |-> "off"]
\* new Map()
NoCache == <<>>
NoHistory == <<>>

\* nothing is fetching or geocoding, and no job row is stored
InitQuiet ==
    /\ redditFetchJobs = <<>>
    /\ fr = NoFetch
    /\ geocall = NoCall
    /\ geocodeCache = NoCache
    /\ elapsed = 0
    /\ recorded = NoHistory
    /\ userReports = <<>>

InitTables ==
    /\ InitQuiet
    /\ scamStories = <<>>
    /\ scamComments = <<>>
    /\ locationStats = <<>>
    /\ ret = [op |-> "none", arg |-> "", result |-> "void"]

NoBatch == [pc |-> "off"]
NoRuns == <<>>

InitIngest ==
    /\ InitTables
    /\ fb = NoBatch
    /\ visits = <<>>
    /\ run = NoRuns
    /\ llmConfigured = TRUE
    /\ runsStarted = 0

NextIngest ==
    \/ \E p \in PostIds : storeRawPost(p) /\ UNCHANGED otherThanIngest
    \/ \E p \in PostIds : storeScrapedPost(p) /\ UNCHANGED otherThanIngest
    \/ \E c \in CommentIds, p \in PostIds :
           storeRawComment(c, p) /\ UNCHANGED otherThanIngest
    \/ \E c \in CommentIds, p \in PostIds :
           storeScrapedComment(c, p) /\ UNCHANGED otherThanIngest
    \/ \E b \in Batches : storeBatchComments(b) /\ UNCHANGED otherThanIngest

SpecIngest == InitIngest /\ [][NextIngest]_vars

-----------------------------------------------------------------------------
(* The aggregator: one locationStats row per (country, city) *)

Locations == {<<"Thailand", <<"Bangkok">>>>}

\* .first() of the rows with this country and city, 0 when there is none
FirstStat(stats, country, city) ==
    LET m == InOrder({k \in 1..Len(stats) :
                         stats[k].country = country /\ stats[k].city = city})
    IN IF m = <<>> THEN 0 ELSE m[1]

\* topScamTypes.findIndex((t) => t.type === scamType), 0 when absent
FindType(top, scamType) ==
    LET S == {k \in 1..Len(top) : top[k].type = scamType}
    IN IF S = {} THEN 0 ELSE CHOOSE k \in S : \A m \in S : k <= m

\* count++ of the entry found, or push({type, count: 1})
BumpType(top, scamType) ==
    LET k == FindType(top, scamType)
    IN IF k > 0
       THEN [top EXCEPT ![k] = [type |-> top[k].type, count |-> top[k].count + 1]]
       ELSE Append(top, [type |-> scamType, count |-> 1])

\* e placed behind every entry whose count is not smaller (a stable insert)
RECURSIVE InsertByCount(_, _)
InsertByCount(sorted, e) ==
    IF sorted = <<>> THEN <<e>>
    ELSE IF Head(sorted).count >= e.count
         THEN <<Head(sorted)>> \o InsertByCount(Tail(sorted), e)
         ELSE <<e>> \o sorted

RECURSIVE SortFrom(_, _)
SortFrom(done, rest) ==
    IF rest = <<>> THEN done
    ELSE SortFrom(InsertByCount(done, Head(rest)), Tail(rest))

NoSort(top) == top

\* topScamTypes.sort((a, b) => b.count - a.count): stable, descending
SortByCountDesc(top) == SortFrom(<<>>, top)

\* averageLoss of the patch: moneyLost ? (averageLoss || 0) + moneyLost / 2
\*                                     : averageLoss
NextAverageLoss(averageLoss, moneyLost) ==
    IF moneyLost # <<>> /\ moneyLost[1] # 0
    THEN <<(IF averageLoss = <<>> THEN 0 ELSE averageLoss[1]) + (moneyLost[1] \div 2)>>
    ELSE averageLoss

\* the table after a mutation that takes the coordinates of every call
StatsAfterLastWins(stats, country, city, scamType, moneyLost, coordinates) ==
    LET k == FirstStat(stats, country, city)
    IN IF k > 0
       THEN LET existingStats == stats[k]
                topScamTypes == SortByCountDesc(BumpType(existingStats.topScamTypes, scamType))
            IN [stats EXCEPT ![k] =
                  [existingStats EXCEPT
                     !.totalScams = existingStats.totalScams + 1,
                     !.topScamTypes = Take(topScamTypes, TopN),
                     !.averageLoss = NextAverageLoss(existingStats.averageLoss, moneyLost),
                     !.coordinates = IF coordinates # <<>>
                                     THEN coordinates
                                     ELSE existingStats.coordinates]]
       ELSE Append(stats,
                   [country |-> country,
                    city |-> city,
                    totalScams |-> 1,
                    topScamTypes |-> <<[type |-> scamType, count |-> 1]>>,
                    averageLoss |-> moneyLost,
                    coordinates |-> coordinates])

\* the locationStats table after updateLocationStatsMutationWithCoordinates;
\* updateLocationStatsMutation is the same handler without the coordinates
StatsAfter(stats, country, city, scamType, moneyLost, coordinates) ==
    LET k == FirstStat(stats, country, city)
    IN IF k > 0
       THEN LET existingStats == stats[k]
                topScamTypes == SortByCountDesc(BumpType(existingStats.topScamTypes, scamType))
            IN [stats EXCEPT ![k] =
                  [existingStats EXCEPT
                     !.totalScams = existingStats.totalScams + 1,
                     !.topScamTypes = Take(topScamTypes, TopN),
                     !.averageLoss = NextAverageLoss(existingStats.averageLoss, moneyLost),
                     !.coordinates = IF coordinates # <<>> /\ existingStats.coordinates = <<>>
                                     THEN coordinates
                                     ELSE existingStats.coordinates]]
       ELSE Append(stats,
                   [country |-> country,
                    city |-> city,
                    totalScams |-> 1,
                    topScamTypes |-> <<[type |-> scamType, count |-> 1]>>,
                    averageLoss |-> moneyLost,
                    coordinates |-> coordinates])

TotalRecorded(stats) ==
    LET RECURSIVE Sum(_)
        Sum(k) == IF k = 0 THEN 0 ELSE stats[k].totalScams + Sum(k - 1)
    IN Sum(Len(stats))

updateLocationStatsMutation(country, city, scamType, moneyLost) ==
    /\ locationStats' = StatsAfter(locationStats, country, city, scamType, moneyLost, <<>>)
    /\ UNCHANGED ret

updateLocationStatsMutationWithCoordinates(country, city, scamType, moneyLost, coordinates) ==
    /\ locationStats' = StatsAfter(locationStats, country, city, scamType, moneyLost, coordinates)
    /\ UNCHANGED ret

otherThanStats == <<scamStories, scamComments, fb, visits, run, llmConfigured,
                    runsStarted, redditFetchJobs, fr, geocall, geocodeCache, elapsed,
                    userReports>>
otherThanAgg == <<otherThanStats, recorded>>

InitAgg == InitIngest

\* the two mutations, with the loss amounts and coordinates drawn from Ls and Cs
AggStep(Ls, Cs) ==
    \/ \E loc \in Locations, t \in IncidentTypes, m \in Ls :
          /\ TotalRecorded(locationStats) < MaxIncidents
          /\ updateLocationStatsMutation(loc[1], loc[2], t, m)
          /\ UNCHANGED otherThanAgg
    \/ \E loc \in Locations, t \in IncidentTypes, m \in Ls, c \in Cs :
          /\ TotalRecorded(locationStats) < MaxIncidents
          /\ updateLocationStatsMutationWithCoordinates(loc[1], loc[2], t, m, c)
          /\ UNCHANGED otherThanAgg

\* SpecAgg records incidents of six categories, without loss amounts
NextAgg == AggStep({<<>>}, CoordArgs)

SpecAgg == InitAgg /\ [][NextAgg]_vars

\* SpecLoss records incidents with and without a loss amount
NextLoss == AggStep(Losses, {<<>>})

SpecLoss == InitAgg /\ [][NextLoss]_vars

-----------------------------------------------------------------------------
(* The aggregator fed in some order, with the history of what was recorded  *)

NoneRecorded == [t \in IncidentTypes |-> 0]

\* one order of the categories, to feed a multiset of incidents in
TypeOrder == <<"airport", "atm", "police", "taxi", "tour", "visa">>

InitOrder ==
    /\ scamStories = <<>>
    /\ scamComments = <<>>
    /\ locationStats = <<>>
    /\ ret = [op |-> "none", arg |-> "", result |-> "void"]
    /\ fb = NoBatch
    /\ visits = <<>>
    /\ run = NoRuns
    /\ llmConfigured = TRUE
    /\ runsStarted = 0
    /\ redditFetchJobs = <<>>
    /\ fr = NoFetch
    /\ geocall = NoCall
    /\ geocodeCache = NoCache
    /\ elapsed = 0
    /\ recorded = NoneRecorded
    /\ userReports = <<>>

\* incidents fed to the aggregator in SpecOrder: one more than the distinct
\* categories of a full list and one repeat need
MaxOrdered == 7

\* an incident of category t arrives: updateLocationStatsMutation records it
recordIncident(loc, t) ==
    /\ TotalRecorded(locationStats) < MaxOrdered
    /\ updateLocationStatsMutation(loc[1], loc[2], t, <<>>)
    /\ recorded' = [recorded EXCEPT ![t] = @ + 1]
    /\ UNCHANGED otherThanStats

NextOrder == \E loc \in Locations, t \in IncidentTypes : recordIncident(loc, t)

SpecOrder == InitOrder /\ [][NextOrder]_vars

\* the table after the incidents counted in bag have been recorded for
\* (country, city) in the order of TypeOrder, starting with the k-th category
RECURSIVE FedInOrder(_, _, _, _, _)
FedInOrder(stats, country, city, bag, k) ==
    IF k > Len(TypeOrder) THEN stats
    ELSE IF bag[TypeOrder[k]] = 0 THEN FedInOrder(stats, country, city, bag, k + 1)
    ELSE FedInOrder(StatsAfter(stats, country, city, TypeOrder[k], <<>>, <<>>),
                    country, city,
                    [bag EXCEPT ![TypeOrder[k]] = @ - 1], k)

Entries(top) == {top[k] : k \in 1..Len(top)}

\* C11: two orderings of the same multiset of incidents of one location give
\* the same totalScams and the same topScamTypes (compared as sets of
\* category counts): the order the incidents arrived in gives what recording
\* them category by category gives.
C11_OrderIndependent ==
    \A loc \in Locations :
        LET k == FirstStat(locationStats, loc[1], loc[2])
            other == FedInOrder(<<>>, loc[1], loc[2], recorded, 1)
        IN k > 0 =>
             /\ locationStats[k].totalScams = other[1].totalScams
             /\ Entries(locationStats[k].topScamTypes) = Entries(other[1].topScamTypes)

\* the categories a row lists
Listed(top) == {top[k].type : k \in 1..Len(top)}

\* C27: topScamTypes of a row holds at most TopN categories, each with the
\* number of incidents recorded for it, and a category recorded more often
\* than a listed one is itself listed.
C27_TopTypesAreTheMostRecorded ==
    \A loc \in Locations :
        LET k == FirstStat(locationStats, loc[1], loc[2])
        IN k > 0 =>
             LET top == locationStats[k].topScamTypes
             IN /\ Len(top) <= TopN
                /\ \A e \in Entries(top) : e.count = recorded[e.type]
                /\ \A t \in IncidentTypes, e \in Entries(top) :
                       recorded[t] > e.count => t \in Listed(top)

\* the part of C27 that is about the listed categories alone
ListedCountsAreTrue ==
    \A loc \in Locations :
        LET k == FirstStat(locationStats, loc[1], loc[2])
        IN k > 0 =>
             LET top == locationStats[k].topScamTypes
             IN /\ Len(top) <= TopN
                /\ \A e \in Entries(top) : e.count = recorded[e.type]

-----------------------------------------------------------------------------
(* The batch scheduler: fetchBatch, driven from batch 0 with each returned  *)
(* nextBatch until nextBatch is 0.  Time is counted in minutes.             *)

\* configured matrix: up to MaxSub subreddits and MaxKey keywords
MaxSub == 2
MaxKey == 3
\* largest batchSize argument
MaxSize == 3
\* minutes a slow work unit takes (throttled and retried, or a stalled fetch)
SlowUnit == 5
\* MAX_RUNTIME = 9 * 60 * 1000 ms
MAX_RUNTIME == 9

UnitMinutes == {0, SlowUnit}

Min(a, b) == IF a <= b THEN a ELSE b

\* totalCombinations = SUBREDDITS.length * REDDIT_KEYWORDS.length
totalCombinations(f) == f.nSub * f.nKey

\* the (subreddit, keyword) pair of index i:
\* subIdx = Math.floor(i / REDDIT_KEYWORDS.length), keyIdx = i % REDDIT_KEYWORDS.length
PairOf(f, i) == <<i \div f.nKey, i % f.nKey>>

Pairs(f) == (0..(f.nSub - 1)) \X (0..(f.nKey - 1))

\* nextBatch: endIdx >= totalCombinations ? 0 : batch + 1
NextBatchOf(f) == IF f.endIdx >= totalCombinations(f) THEN 0 ELSE f.batch + 1

otherThanBatch == <<scamStories, scamComments, locationStats, ret, run,
                    llmConfigured, runsStarted, redditFetchJobs, fr, geocall, geocodeCache, elapsed,
          recorded,
    userReports>>

InitBatch ==
    /\ InitTables
    /\ run = NoRuns
    /\ llmConfigured = TRUE
    /\ runsStarted = 0
    /\ \E nSub \in 1..MaxSub, nKey \in 1..MaxKey, size \in 1..MaxSize :
          /\ fb = [pc |-> "call", nSub |-> nSub, nKey |-> nKey, size |-> size,
                   batch |-> 0, i |-> 0, endIdx |-> 0, elapsed |-> 0,
                   processed |-> 0, nextBatch |-> 0, interrupted |-> {}]
          /\ visits = [pr \in (0..(nSub - 1)) \X (0..(nKey - 1)) |-> 0]

\* fetchBatch up to its loop: startIdx, endIdx and the early return
fetchBatchEnter ==
    /\ fb.pc = "call"
    /\ LET startIdx == fb.batch * fb.size
           endIdx == Min(startIdx + fb.size, totalCombinations(fb))
       IN IF startIdx >= totalCombinations(fb)
          THEN fb' = [fb EXCEPT !.pc = "returned", !.processed = 0, !.nextBatch = 0]
          ELSE fb' = [fb EXCEPT !.pc = "loop", !.i = startIdx, !.endIdx = endIdx,
                                !.elapsed = 0, !.processed = 0]
    /\ UNCHANGED visits

\* one iteration of the loop that passes the ceiling check: fetchRedditPosts
\* is invoked for the pair of index i, and returns or throws after d minutes
fetchBatchUnit(d, threw) ==
    /\ fb.pc = "loop"
    /\ fb.i < fb.endIdx
    /\ ~(fb.elapsed > MAX_RUNTIME)
    /\ visits' = [visits EXCEPT ![PairOf(fb, fb.i)] = @ + 1]
    /\ fb' = [fb EXCEPT !.i = @ + 1,
                        !.elapsed = @ + d,
                        !.processed = IF threw THEN @ ELSE @ + 1]

\* the ceiling check fails: break; the units i..endIdx-1 are left unvisited
fetchBatchTimeout ==
    /\ fb.pc = "loop"
    /\ fb.i < fb.endIdx
    /\ fb.elapsed > MAX_RUNTIME
    /\ fb' = [fb EXCEPT !.pc = "returned",
                        !.nextBatch = NextBatchOf(fb),
                        !.interrupted = @ \cup (fb.i..(fb.endIdx - 1))]
    /\ UNCHANGED visits

\* the loop ends: return { success, processed, nextBatch, totalPosts }
fetchBatchReturn ==
    /\ fb.pc = "loop"
    /\ fb.i >= fb.endIdx
    /\ fb' = [fb EXCEPT !.pc = "returned", !.nextBatch = NextBatchOf(fb)]
    /\ UNCHANGED visits

\* the caller: fetchBatch again with the returned nextBatch, until it is 0
driverContinue ==
    /\ fb.pc = "returned"
    /\ IF fb.nextBatch = 0
       THEN fb' = [fb EXCEPT !.pc = "done"]
       ELSE fb' = [fb EXCEPT !.pc = "call", !.batch = fb.nextBatch]
    /\ UNCHANGED visits

NextBatch ==
    \/ fetchBatchEnter /\ UNCHANGED otherThanBatch
    \/ \E d \in UnitMinutes, threw \in BOOLEAN :
           fetchBatchUnit(d, threw) /\ UNCHANGED otherThanBatch
    \/ fetchBatchTimeout /\ UNCHANGED otherThanBatch
    \/ fetchBatchReturn /\ UNCHANGED otherThanBatch
    \/ driverContinue /\ UNCHANGED otherThanBatch

SpecBatch == InitBatch /\ [][NextBatch]_vars

-----------------------------------------------------------------------------
(* The source client: fetchRedditPosts, one step per call it awaits, and    *)
(* the redditFetchJobs table                                                *)

\* fetchRedditPosts invocations in one behaviour
MaxFetches == 2

\* limit = 100 when the argument is absent
DefaultFetchLimit == 100
\* the delay before the search request, in seconds
RequestDelay == 1
\* the cooldown after a 429, in seconds
Cooldown == 60
\* the limit of the comments request
CommentFetchLimit == 500
\* the limit of the retry request
RetryLimit == 10
\* posts stored from the retry response: posts.slice(0, 5)
RetryPosts == 5
\* Math.min(posts.length, 100)
MaxPostsPerKeyword == 100
\* post.num_comments <= 50
MaxCommentsPerPost == 50
\* commentsProcessed < 20
MaxCommentThreads == 20

FetchPairs == {<<"travel", "scam">>, <<"travel", "taxi">>}
\* the limit argument: absent, 3 (testFetch), 100 (fetchAllForKeyword)
FetchLimits == {<<>>, <<3>>, <<100>>}

\* what a search request gets: a status (0: the fetch itself rejected) and
\* the posts of the listing
PostLists == {<<>>, <<"p1">>, <<"p1", "p2">>}
SearchResponses ==
    {[status |-> 200, posts |-> ps] : ps \in PostLists}
        \cup {[status |-> st, posts |-> <<>>] : st \in {0, 429, 500}}

\* response.ok
Ok(status) == status >= 200 /\ status <= 299

\* post.num_comments of the posts of the listings
NumComments(p) == IF p = "p1" THEN 1 ELSE 60

\* what fetchPostComments gets for a post: the fetch rejects, a non-2xx
\* status, or the comments of the thread
CommentOutcomes(p) ==
    {[kind |-> k, batch |-> <<>>] : k \in {"network_error", "http_error", "rate_limited"}}
        \cup {[kind |-> "ok", batch |-> b] :
                 b \in {<<>>, <<[id |-> "c1", postId |-> p]>>,
                        <<[id |-> "c1", postId |-> p], [id |-> "c2", postId |-> p]>>}}

\* response.status of an outcome of the comments request (0: the fetch
\* itself rejected)
StatusOf(kind) ==
    IF kind = "network_error" THEN 0
    ELSE IF kind = "rate_limited" THEN 429
    ELSE IF kind = "http_error" THEN 500 ELSE 200

IdleFetch(n) == [pc |-> "idle", n |-> n]

\* .first() of the rows of the pair, 0 when there is none
FirstJob(jobs, subreddit, keyword) ==
    LET m == InOrder({k \in 1..Len(jobs) :
                         jobs[k].subreddit = subreddit /\ jobs[k].keyword = keyword})
    IN IF m = <<>> THEN 0 ELSE m[1]

\* the table after updateFetchJobStatus: patch the row of the pair or insert it
JobsAfterUpdate(jobs, subreddit, keyword, status, errorMessage, postsProcessed) ==
    LET k == FirstJob(jobs, subreddit, keyword)
    IN IF k > 0
       THEN [jobs EXCEPT ![k] = [@ EXCEPT !.status = status,
                                          !.errorMessage = errorMessage,
                                          !.postsProcessed = postsProcessed]]
       ELSE Append(jobs, [subreddit |-> subreddit, keyword |-> keyword,
                          status |-> status, errorMessage |-> errorMessage,
                          postsProcessed |-> postsProcessed])

updateFetchJobStatus(subreddit, keyword, status, errorMessage, postsProcessed) ==
    redditFetchJobs' = JobsAfterUpdate(redditFetchJobs, subreddit, keyword, status,
                                       errorMessage, postsProcessed)

FetchReturned(pair, result) ==
    [op |-> "fetchRedditPosts", arg |-> pair, result |-> result]

otherThanFetch == <<locationStats, fb, visits, run, llmConfigured, runsStarted,
                    geocall, geocodeCache, elapsed,
          recorded,
    userReports>>

\* fetchRedditPosts is called
fetchRedditPosts(pair, limit, skipComments) ==
    /\ fr.pc = "idle"
    /\ fr.n < MaxFetches
    /\ fr' = [pc |-> "search", n |-> fr.n + 1, pair |-> pair,
              limit |-> IF limit = <<>> THEN DefaultFetchLimit ELSE limit[1],
              skipComments |-> skipComments, requests |-> <<>>,
              waited |-> RequestDelay,
              posts |-> <<>>, postsInserted |-> 0, commentsProcessed |-> 0,
              error |-> "", result |-> ""]
    /\ UNCHANGED <<scamStories, scamComments, redditFetchJobs, ret>>

\* the search request and the branch on its response
searchResponse(resp) ==
    /\ fr.pc = "search"
    /\ LET sent == Append(fr.requests, [limit |-> fr.limit, waited |-> fr.waited,
                                        status |-> resp.status])
       IN fr' = IF resp.status = 0
                THEN [fr EXCEPT !.requests = sent, !.waited = 0, !.pc = "catch", !.error = "fetch failed"]
                ELSE IF resp.status = 429
                THEN [fr EXCEPT !.requests = sent, !.waited = 0, !.pc = "cooldown"]
                ELSE IF ~Ok(resp.status)
                THEN [fr EXCEPT !.requests = sent, !.waited = 0, !.pc = "catch",
                                !.error = "Reddit API error"]
                ELSE [fr EXCEPT !.requests = sent, !.waited = 0,
                                !.posts = Take(resp.posts, MaxPostsPerKeyword),
                                !.pc = IF resp.posts = <<>> THEN "completed"
                                       ELSE "storeRawPost"]
    /\ UNCHANGED <<scamStories, scamComments, redditFetchJobs, ret>>

\* the wait after a 429
cooldown ==
    /\ fr.pc = "cooldown"
    /\ fr' = [fr EXCEPT !.waited = Cooldown, !.pc = "retry"]
    /\ UNCHANGED <<scamStories, scamComments, redditFetchJobs, ret>>

\* the retry request and the branch on its response
retryResponse(resp) ==
    /\ fr.pc = "retry"
    /\ LET sent == Append(fr.requests, [limit |-> RetryLimit, waited |-> fr.waited,
                                        status |-> resp.status])
       IN fr' = IF resp.status = 0
                THEN [fr EXCEPT !.requests = sent, !.waited = 0, !.pc = "catch", !.error = "fetch failed"]
                ELSE IF ~Ok(resp.status)
                THEN [fr EXCEPT !.requests = sent, !.waited = 0, !.pc = "return", !.result = "failure"]
                ELSE [fr EXCEPT !.requests = sent, !.waited = 0,
                                !.posts = Take(resp.posts, RetryPosts),
                                !.result = "success",
                                !.pc = IF resp.posts = <<>> THEN "return"
                                       ELSE "retryStoreRawPost"]
    /\ UNCHANGED <<scamStories, scamComments, redditFetchJobs, ret>>

\* the loop of the retry path: storeRawPost, outside any inner try
retryStoreRawPost ==
    /\ fr.pc = "retryStoreRawPost"
    /\ storeRawPost(Head(fr.posts))
    /\ fr' = IF ret'.result = "threw"
             THEN [fr EXCEPT !.pc = "catch", !.error = "storeRawPost failed"]
             ELSE [fr EXCEPT !.posts = Tail(@),
                             !.pc = IF Tail(fr.posts) = <<>> THEN "return"
                                    ELSE "retryStoreRawPost"]
    /\ UNCHANGED redditFetchJobs

\* the head of the loop over the posts, after the post at the head is done
NextPost(f) ==
    [f EXCEPT !.posts = Tail(@),
              !.pc = IF Tail(f.posts) = <<>> THEN "completed" ELSE "storeRawPost"]

\* the loop of the normal path: storeRawPost inside its try, then the
\* decision to fetch the comments of the post
storePost ==
    /\ fr.pc = "storeRawPost"
    /\ storeRawPost(Head(fr.posts))
    /\ LET p == Head(fr.posts)
           counted == [fr EXCEPT !.postsInserted =
                          IF ret'.result = "inserted" THEN @ + 1 ELSE @]
       IN fr' = IF ret'.result = "threw" THEN NextPost(fr)
                ELSE IF /\ ~fr.skipComments
                        /\ NumComments(p) > 0
                        /\ NumComments(p) <= MaxCommentsPerPost
                        /\ fr.commentsProcessed < MaxCommentThreads
                THEN [counted EXCEPT !.pc = "fetchPostComments"]
                ELSE NextPost(counted)
    /\ UNCHANGED redditFetchJobs

\* fetchPostComments for the post at the head: best effort
fetchPostComments ==
    /\ fr.pc = "fetchPostComments"
    /\ \E o \in CommentOutcomes(Head(fr.posts)) :
          /\ IF o.kind = "ok" /\ o.batch # <<>>
             THEN storeBatchComments(o.batch)
             ELSE UNCHANGED <<scamStories, scamComments, ret>>
          /\ fr' = NextPost([fr EXCEPT !.commentsProcessed =
                                IF o.kind = "network_error" THEN @ ELSE @ + 1,
                                        !.requests =
                                           Append(@, [limit |-> CommentFetchLimit,
                                                      waited |-> fr.waited,
                                                      status |-> StatusOf(o.kind)]),
                                        !.waited = 0])
    /\ UNCHANGED redditFetchJobs

\* the end of the normal path: the job row is set to completed
fetchCompleted ==
    /\ fr.pc = "completed"
    /\ updateFetchJobStatus(fr.pair[1], fr.pair[2], "completed", <<>>, fr.postsInserted)
    /\ fr' = [fr EXCEPT !.pc = "return", !.result = "success"]
    /\ UNCHANGED <<scamStories, scamComments, ret>>

\* the catch block: the job row is set to failed and the error thrown again
fetchCatch ==
    /\ fr.pc = "catch"
    /\ updateFetchJobStatus(fr.pair[1], fr.pair[2], "failed", <<fr.error>>, 0)
    /\ fr' = [fr EXCEPT !.pc = "return", !.result = "threw"]
    /\ UNCHANGED <<scamStories, scamComments, ret>>

\* fetchRedditPosts returns to its caller, or throws
fetchReturn ==
    /\ fr.pc = "return"
    /\ ret' = FetchReturned(fr.pair, fr.result)
    /\ fr' = IdleFetch(fr.n)
    /\ UNCHANGED <<scamStories, scamComments, redditFetchJobs>>

InitFetch ==
    /\ scamStories = <<>>
    /\ scamComments = <<>>
    /\ locationStats = <<>>
    /\ ret = [op |-> "none", arg |-> "", result |-> "void"]
    /\ fb = NoBatch
    /\ visits = <<>>
    /\ run = NoRuns
    /\ llmConfigured = TRUE
    /\ runsStarted = 0
    /\ redditFetchJobs = <<>>
    /\ fr = IdleFetch(0)
    /\ geocall = NoCall
    /\ geocodeCache = NoCache
    /\ elapsed = 0
    /\ recorded = NoHistory
    /\ userReports = <<>>

NextFetch ==
    \/ \E pair \in FetchPairs, limit \in FetchLimits, skipComments \in BOOLEAN :
           fetchRedditPosts(pair, limit, skipComments) /\ UNCHANGED otherThanFetch
    \/ \E resp \in SearchResponses : searchResponse(resp) /\ UNCHANGED otherThanFetch
    \/ cooldown /\ UNCHANGED otherThanFetch
    \/ \E resp \in SearchResponses : retryResponse(resp) /\ UNCHANGED otherThanFetch
    \/ retryStoreRawPost /\ UNCHANGED otherThanFetch
    \/ storePost /\ UNCHANGED otherThanFetch
    \/ fetchPostComments /\ UNCHANGED otherThanFetch
    \/ fetchCompleted /\ UNCHANGED otherThanFetch
    \/ fetchCatch /\ UNCHANGED otherThanFetch
    \/ fetchReturn /\ UNCHANGED otherThanFetch

SpecFetch == InitFetch /\ [][NextFetch]_vars

-----------------------------------------------------------------------------
(* Comments for the stored posts: fetchCommentsForExistingPosts.  The       *)
(* action is called again and again; fr is the invocation that is running.  *)
(* Waits are counted in seconds, the clock of the action in minutes.        *)

\* fetchCommentsForExistingPosts: args.limit || 20
DefaultCommentPosts == 20
\* args.maxCommentsPerPost || 200
DefaultMaxComments == 200
\* getStoriesNeedingComments: .take(200) stories, .take(10000) comments
StoriesTake == 200
CommentsTake == 10000
\* MAX_RUNTIME = 8 * 60 * 1000 ms
CommentsMaxRuntime == 8
\* the wait after a story whose fetch returned, and after one whose fetch
\* threw, in seconds
AfterFetchWait == 2
AfterErrorWait == 5

\* the limit and maxCommentsPerPost arguments: <<>> is "not given"
CommentPostLimits == {<<>>, <<1>>}
MaxCommentsArgs == {<<>>, <<50>>}

\* the posts whose thread never gives a comment to store: the request
\* fails or the thread is empty
DeadPosts == {"p1"}

\* what fetchPostComments gets for the thread of a post
ThreadOutcomes(p) ==
    IF p \in DeadPosts
    THEN {o \in CommentOutcomes(p) : o.batch = <<>>}
    ELSE CommentOutcomes(p)

HasComments(sid) == \E k \in 1..Len(scamComments) : scamComments[k].storyId = sid

\* getStoriesNeedingComments
getStoriesNeedingComments(limit) ==
    LET stories == Take(InOrder(1..Len(scamStories)), StoriesTake)
        allComments == Take(InOrder(1..Len(scamComments)), CommentsTake)
        storiesWithComments == {scamComments[allComments[k]].storyId :
                                   k \in 1..Len(allComments)}
    IN Take(SelectSeq(stories, LAMBDA sid : sid \notin storiesWithComments), limit)

\* getCommentCountForPost
getCommentCountForPost(comments, sid) ==
    Min(Cardinality({k \in 1..Len(comments) : comments[k].storyId = sid}),
        ExistingTake)

IdleComments == [pc |-> "idle"]

otherThanComments == <<locationStats, fb, visits, run, llmConfigured, runsStarted,
                       redditFetchJobs, geocall, geocodeCache, recorded,
    userReports>>

\* the head of the loop over the stories
NextNeeding(f) ==
    [f EXCEPT !.stories = Tail(@),
              !.pc = IF Tail(f.stories) = <<>> THEN "return" ELSE "loop"]

\* fetchCommentsForExistingPosts is called: the query, and the early return
\* when no story needs comments
fetchCommentsForExistingPosts(limit, maxCommentsPerPost) ==
    /\ fr.pc = "idle"
    /\ LET lim == IF limit = <<>> \/ limit[1] = 0
                  THEN DefaultCommentPosts ELSE limit[1]
           stories == getStoriesNeedingComments(lim)
       IN fr' = [pc |-> IF stories = <<>> THEN "return" ELSE "loop",
                 limit |-> lim,
                 maxComments |-> IF maxCommentsPerPost = <<>> \/ maxCommentsPerPost[1] = 0
                                 THEN DefaultMaxComments ELSE maxCommentsPerPost[1],
                 stories |-> stories, postsProcessed |-> 0, totalComments |-> 0,
                 errors |-> 0, requests |-> <<>>, waited |-> 0]
    /\ elapsed' = 0
    /\ UNCHANGED <<scamStories, scamComments, ret>>

\* the loop: Date.now() - startTime > MAX_RUNTIME, break
commentsTimeout ==
    /\ fr.pc = "loop"
    /\ elapsed > CommentsMaxRuntime
    /\ fr' = [fr EXCEPT !.pc = "return"]
    /\ UNCHANGED <<scamStories, scamComments, ret, elapsed>>

\* the loop: a story with more than maxComments comments is passed over
commentsSkip ==
    /\ fr.pc = "loop"
    /\ elapsed <= CommentsMaxRuntime
    /\ NumComments(scamStories[Head(fr.stories)].postId) > fr.maxComments
    /\ fr' = NextNeeding(fr)
    /\ UNCHANGED <<scamStories, scamComments, ret, elapsed>>

\* the loop: the count before, fetchPostComments taking d minutes, the
\* count after and the wait.  fetchPostComments returns on a response that
\* is not ok, 429 included, and throws only when the fetch itself rejects,
\* with an error that does not name a status
commentsFetchStory(o, d) ==
    /\ fr.pc = "loop"
    /\ elapsed <= CommentsMaxRuntime
    /\ LET sid == Head(fr.stories)
           p == scamStories[sid].postId
           sent == Append(fr.requests, [status |-> StatusOf(o.kind),
                                        waited |-> fr.waited])
       IN /\ NumComments(p) <= fr.maxComments
          /\ o \in ThreadOutcomes(p)
          /\ IF o.kind = "ok" /\ o.batch # <<>>
             THEN storeBatchComments(o.batch)
             ELSE UNCHANGED <<scamStories, scamComments, ret>>
          /\ fr' = NextNeeding(
                      IF o.kind = "network_error"
                      THEN [fr EXCEPT !.errors = @ + 1, !.requests = sent,
                                      !.waited = AfterErrorWait]
                      ELSE [fr EXCEPT !.postsProcessed = @ + 1,
                                      !.totalComments =
                                          @ + getCommentCountForPost(scamComments', sid)
                                            - getCommentCountForPost(scamComments, sid),
                                      !.requests = sent,
                                      !.waited = AfterFetchWait])
    /\ elapsed' = elapsed + d

\* fetchCommentsForExistingPosts returns
commentsReturn ==
    /\ fr.pc = "return"
    /\ ret' = [op |-> "fetchCommentsForExistingPosts", arg |-> "",
               result |-> [postsProcessed |-> fr.postsProcessed,
                           commentsFetched |-> fr.totalComments,
                           errors |-> fr.errors]]
    /\ fr' = IdleComments
    /\ UNCHANGED <<scamStories, scamComments, elapsed>>

\* two stored posts without comments, in either order
InitComments ==
    /\ scamStories \in {<<NewStory("p1"), NewStory("p2")>>,
                         <<NewStory("p2"), NewStory("p1")>>}
    /\ scamComments = <<>>
    /\ locationStats = <<>>
    /\ ret = [op |-> "none", arg |-> "", result |-> "void"]
    /\ redditFetchJobs = <<>>
    /\ fr = IdleComments
    /\ geocall = NoCall
    /\ geocodeCache = NoCache
    /\ elapsed = 0
    /\ recorded = NoHistory
    /\ userReports = <<>>
    /\ fb = NoBatch
    /\ visits = <<>>
    /\ run = NoRuns
    /\ llmConfigured = TRUE
    /\ runsStarted = 0

\* minutes a fetch takes: none to speak of, or a stalled one
FetchMinutes == {0, 2 * SlowUnit}

AllThreadOutcomes == UNION {ThreadOutcomes(p) : p \in PostIds}
\* the outcomes that give comments to store
StoringOutcomes == {o \in AllThreadOutcomes : o.kind = "ok" /\ o.batch # <<>>}

NextComments ==
    \/ \E limit \in CommentPostLimits, maxCommentsPerPost \in MaxCommentsArgs :
           fetchCommentsForExistingPosts(limit, maxCommentsPerPost)
               /\ UNCHANGED otherThanComments
    \/ commentsTimeout /\ UNCHANGED otherThanComments
    \/ commentsSkip /\ UNCHANGED otherThanComments
    \/ \E o \in AllThreadOutcomes, d \in FetchMinutes :
           commentsFetchStory(o, d) /\ UNCHANGED otherThanComments
    \/ commentsReturn /\ UNCHANGED otherThanComments

SpecComments == InitComments /\ [][NextComments]_vars

\* the action is invoked again and again, every invocation runs to its
\* return, and a thread that has comments does not fail for ever
FairComments ==
    /\ SpecComments
    /\ WF_vars(NextComments)
    /\ SF_vars(\E o \in StoringOutcomes, d \in FetchMinutes :
                  commentsFetchStory(o, d) /\ UNCHANGED otherThanComments)

-----------------------------------------------------------------------------
(* The page scraper: scrapeRedditPostInternal, one step per call it awaits. *)
(* fr is the invocation that is running.  A comment of a page is known by   *)
(* its author and body, here one text; the id extractComments gives it is   *)
(* made of the post, the time of the scrape and a random suffix.            *)

\* scrapeRedditPostInternal invocations in one behaviour
MaxScrapes == 2

\* the comments a scraped page shows, as (author, body) texts
PageTexts == {<<>>, <<"x">>, <<"x", "x">>, <<"x", "y">>}
\* what the scrape request gets
ScrapeResponses ==
    {[ok |-> FALSE, texts |-> <<>>]} \cup {[ok |-> TRUE, texts |-> t] : t \in PageTexts}

\* uniqueComments: the first comment of each (body, author)
RECURSIVE UniqueTexts(_, _)
UniqueTexts(texts, seen) ==
    IF texts = <<>> THEN <<>>
    ELSE IF Head(texts) \in seen THEN UniqueTexts(Tail(texts), seen)
    ELSE <<Head(texts)>> \o UniqueTexts(Tail(texts), seen \cup {Head(texts)})

\* extractComments at the at-th scrape: every comment pushed gets the id
\* `${postId}_${Date.now()}_${Math.random()...}`
\* (of: the text the id was made for, which stands for the random suffix)
extractComments(texts, postId, at) ==
    LET kept == UniqueTexts(texts, {})
    IN [j \in 1..Len(kept) |->
           [id |-> [post |-> postId, at |-> at, of |-> kept[j]], text |-> kept[j]]]

IdleScrape(n) == [pc |-> "idle", n |-> n]

otherThanScrape == <<otherThanFetch, redditFetchJobs>>

ScrapeReturned(p, result, calls, wasNew) ==
    [op |-> "scrapeRedditPostInternal", arg |-> p, result |-> result,
     calls |-> calls, wasNew |-> wasNew]

\* scrapeRedditPostInternal is called with the URL of post p
scrapeRedditPostInternal(p) ==
    /\ fr.pc = "idle"
    /\ fr.n < MaxScrapes
    /\ fr' = [pc |-> "scrape", n |-> fr.n + 1, post |-> p, comments |-> <<>>,
              texts |-> <<>>, storyId |-> <<>>, wasNew |-> FALSE, calls |-> <<>>]
    /\ UNCHANGED <<scamStories, scamComments, ret>>

\* the scrape request: a response that is not ok, or has no data, throws
scrapeResponse(resp) ==
    /\ fr.pc = "scrape"
    /\ IF ~resp.ok
       THEN /\ ret' = ScrapeReturned(fr.post, "threw", fr.calls, FALSE)
            /\ fr' = IdleScrape(fr.n)
       ELSE /\ fr' = [fr EXCEPT !.texts = resp.texts, !.pc = "storeScrapedPost"]
            /\ UNCHANGED ret
    /\ UNCHANGED <<scamStories, scamComments>>

\* storyId = await storeScrapedPost(...): whatever the mutation returns,
\* and it returns nothing; then extractComments
scrapeStorePost ==
    /\ fr.pc = "storeScrapedPost"
    /\ storeScrapedPost(fr.post)
    /\ LET comments == extractComments(fr.texts, fr.post, fr.n)
       IN fr' = [fr EXCEPT !.storyId = IF ret'.result = "void" THEN <<>>
                                        ELSE <<ret'.result>>,
                           !.wasNew = Len(scamStories') > Len(scamStories),
                           !.calls = Append(@, "storeScrapedPost"),
                           !.comments = comments,
                           !.pc = IF comments = <<>> THEN "analysis"
                                  ELSE "storeScrapedComment"]

\* the loop over the comments: storeScrapedComment
scrapeStoreComment ==
    /\ fr.pc = "storeScrapedComment"
    /\ storeScrapedComment(Head(fr.comments).id, fr.post)
    /\ fr' = [fr EXCEPT !.comments = Tail(@),
                        !.calls = Append(@, "storeScrapedComment"),
                        !.pc = IF Tail(fr.comments) = <<>> THEN "analysis"
                               ELSE "storeScrapedComment"]

\* if (storyId) analyzeScamStory({storyId}), then the return
scrapeAnalysis ==
    /\ fr.pc = "analysis"
    /\ ret' = ScrapeReturned(fr.post, "success",
                             IF fr.storyId # <<>>
                             THEN Append(fr.calls, "analyzeScamStory")
                             ELSE fr.calls,
                             fr.wasNew)
    /\ fr' = IdleScrape(fr.n)
    /\ UNCHANGED <<scamStories, scamComments>>

InitScrape ==
    /\ scamStories = <<>>
    /\ scamComments = <<>>
    /\ locationStats = <<>>
    /\ ret = [op |-> "none", arg |-> "", result |-> "void"]
    /\ redditFetchJobs = <<>>
    /\ fr = IdleScrape(0)
    /\ geocall = NoCall
    /\ geocodeCache = NoCache
    /\ elapsed = 0
    /\ recorded = NoHistory
    /\ userReports = <<>>
    /\ fb = NoBatch
    /\ visits = <<>>
    /\ run = NoRuns
    /\ llmConfigured = TRUE
    /\ runsStarted = 0

NextScrape ==
    \/ \E p \in PostIds : scrapeRedditPostInternal(p) /\ UNCHANGED otherThanScrape
    \/ \E resp \in ScrapeResponses : scrapeResponse(resp) /\ UNCHANGED otherThanScrape
    \/ scrapeStorePost /\ UNCHANGED otherThanScrape
    \/ scrapeStoreComment /\ UNCHANGED otherThanScrape
    \/ scrapeAnalysis /\ UNCHANGED otherThanScrape

SpecScrape == InitScrape /\ [][NextScrape]_vars

-----------------------------------------------------------------------------
(* The job table under updateFetchJobStatus and stopAllJobs.  A keyword is  *)
(* a number here: the k-th search term some caller has asked for.           *)

\* stopAllJobs: ctx.db.query("redditFetchJobs").take(100)
JobsTake == 100
\* rows the table can hold
MaxJobRows == 101

JobStatuses == {"pending", "processing", "completed", "failed"}

\* the keywords a row is written for: the first one, and those that come
\* after JobsTake - 1 others
JobKeywords == {1} \cup (JobsTake..MaxJobRows)

\* the row of a pair whose fetch has completed
CompletedJob(k) ==
    [subreddit |-> "travel", keyword |-> k, status |-> "completed",
     errorMessage |-> <<>>, postsProcessed |-> 0]

\* the table after stopAllJobs: the first JobsTake rows, those pending or
\* processing set to failed
StoppedJobs(jobs) ==
    LET taken == Len(Take(jobs, JobsTake))
    IN [k \in 1..Len(jobs) |->
           IF k <= taken /\ jobs[k].status \in {"processing", "pending"}
           THEN [jobs[k] EXCEPT !.status = "failed",
                                !.errorMessage = <<"Manually stopped">>]
           ELSE jobs[k]]

stopAllJobs ==
    LET jobs == Take(redditFetchJobs, JobsTake)
        stopped == Cardinality({k \in 1..Len(jobs) :
                       jobs[k].status \in {"processing", "pending"}})
    IN /\ redditFetchJobs' = StoppedJobs(redditFetchJobs)
       /\ ret' = [op |-> "stopAllJobs", arg |-> "",
                  result |-> [stoppedJobs |-> stopped, totalJobs |-> Len(jobs)]]

\* updateFetchJobStatus called on its own
setJobStatus(keyword, status) ==
    /\ FirstJob(redditFetchJobs, "travel", keyword) = 0 => Len(redditFetchJobs) < MaxJobRows
    /\ updateFetchJobStatus("travel", keyword, status,
                            IF status = "failed" THEN <<"Reddit API error">> ELSE <<>>, 0)
    /\ ret' = [op |-> "updateFetchJobStatus", arg |-> keyword, result |-> "void"]

otherThanJobs == <<scamStories, scamComments, locationStats, fb, visits, run,
                   llmConfigured, runsStarted, fr, geocall, geocodeCache, elapsed,
          recorded,
    userReports>>

\* no job row yet, or the rows of JobsTake - 1 pairs whose fetch has completed
InitJobs ==
    /\ scamStories = <<>>
    /\ scamComments = <<>>
    /\ locationStats = <<>>
    /\ ret = [op |-> "none", arg |-> "", result |-> "void"]
    /\ fb = NoBatch
    /\ visits = <<>>
    /\ run = NoRuns
    /\ llmConfigured = TRUE
    /\ runsStarted = 0
    /\ \E n \in {0, JobsTake - 1} : redditFetchJobs = [k \in 1..n |-> CompletedJob(k)]
    /\ fr = NoFetch
    /\ geocall = NoCall
    /\ geocodeCache = NoCache
    /\ elapsed = 0
    /\ recorded = NoHistory
    /\ userReports = <<>>

NextJobs ==
    \/ \E k \in JobKeywords, st \in JobStatuses :
           setJobStatus(k, st) /\ UNCHANGED otherThanJobs
    \/ stopAllJobs /\ UNCHANGED otherThanJobs

SpecJobs == InitJobs /\ [][NextJobs]_vars

-----------------------------------------------------------------------------
(* The geocoder: geocodeLocationDetailed behind geocodeAndNormalize.        *)
(* A string is a sequence of characters; a coordinate is a whole number of  *)
(* ten-thousandths of a degree.                                             *)

Delhi == <<"D", "e", "l", "h", "i">>
NewDelhi == <<"N", "e", "w", " ", "D", "e", "l", "h", "i">>
Lombok == <<"L", "o", "m", "b", "o", "k">>
India == <<"I", "n", "d", "i", "a">>
Indonesia == <<"I", "n", "d", "o", "n", "e", "s", "i", "a">>
UnitedStates == <<"U", "S", "A">>
Bazaar == <<"b", "a", "z", "a", "a", "r">>

\* String.prototype.toLowerCase, on the letters that occur
LowerChar(c) ==
    CASE c = "D" -> "d" [] c = "I" -> "i" [] c = "L" -> "l" [] c = "N" -> "n"
      [] c = "U" -> "u" [] c = "S" -> "s" [] c = "A" -> "a" [] OTHER -> c

toLowerCase(s) == [k \in 1..Len(s) |-> LowerChar(s[k])]

\* String.prototype.trim
RECURSIVE trim(_)
trim(s) ==
    IF s # <<>> /\ Head(s) = " " THEN trim(Tail(s))
    ELSE IF s # <<>> /\ s[Len(s)] = " " THEN trim(SubSeq(s, 1, Len(s) - 1))
    ELSE s

\* String.prototype.includes
includes(s, sub) ==
    \E i \in 1..(Len(s) - Len(sub) + 1) : SubSeq(s, i, i + Len(sub) - 1) = sub

\* Array.prototype.join(", ")
RECURSIVE join(_)
join(parts) ==
    IF parts = <<>> THEN <<>>
    ELSE IF Len(parts) = 1 THEN parts[1]
    ELSE parts[1] \o <<",", " ">> \o join(Tail(parts))

\* Math.abs
Abs(x) == IF x < 0 THEN -x ELSE x

\* what the Mapbox request gets: no token is configured, the fetch rejects,
\* a non-2xx status, no feature, or the first feature
GeoFeatures ==
    {[lat |-> 286139, lng |-> 772090, country |-> <<India>>, city |-> <<Delhi>>],
     [lat |-> 374300, lng |-> -1207800, country |-> <<UnitedStates>>, city |-> <<Delhi>>],
     [lat |-> -86500, lng |-> 1163249, country |-> <<Indonesia>>, city |-> <<Lombok>>],
     [lat |-> -10000, lng |-> 1130000, country |-> <<Indonesia>>, city |-> <<>>]}

NoFeature == [lat |-> 0, lng |-> 0, country |-> <<>>, city |-> <<>>]

GeoResponses ==
    {[kind |-> k, feature |-> NoFeature] :
        k \in {"no_token", "rejected", "http_error", "empty"}}
        \cup {[kind |-> "feature", feature |-> f] : f \in GeoFeatures}

\* the query string geocodeLocationDetailed sends
queryString(location, countryHint) ==
    LET locationLowerDetailed == trim(toLowerCase(location))
    IN IF locationLowerDetailed = toLowerCase(Delhi)
          /\ includes(toLowerCase(countryHint), toLowerCase(India))
       THEN join(<<Delhi, India>>)
       ELSE IF locationLowerDetailed = toLowerCase(Lombok)
               /\ includes(toLowerCase(countryHint), toLowerCase(Indonesia))
       THEN <<"L", "o", "m", "b", "o", "k", " ", "I", "s", "l", "a", "n", "d">>
                \o <<",", " ">> \o Indonesia
       ELSE IF ~includes(toLowerCase(location), toLowerCase(countryHint))
       THEN join(<<trim(location), trim(countryHint)>>)
       ELSE trim(location)

\* geocodeLocationDetailed: <<>> for null, else <<the record it returns>>
geocodeLocationDetailed(location, countryHint, resp) ==
    IF resp.kind # "feature" THEN <<>>
    ELSE LET lat == resp.feature.lat
             lng == resp.feature.lng
             locationLowerValidate == trim(toLowerCase(location))
         IN IF /\ locationLowerValidate = toLowerCase(Delhi)
               /\ includes(toLowerCase(countryHint), toLowerCase(India))
               /\ (Abs(lat - 286000) > 50000 \/ Abs(lng - 772000) > 50000)
            THEN <<[lat |-> 286139, lng |-> 772090, country |-> <<India>>,
                    city |-> <<Delhi>>]>>
            ELSE IF /\ locationLowerValidate = toLowerCase(Lombok)
                    /\ includes(toLowerCase(countryHint), toLowerCase(Indonesia))
                    /\ (Abs(lat - (-86500)) > 20000 \/ Abs(lng - 1163000) > 20000)
            THEN <<[lat |-> -86500, lng |-> 1163249, country |-> <<Indonesia>>,
                    city |-> <<Lombok>>]>>
            ELSE <<resp.feature>>

\* the location string analyzeScamStory builds: specificLocation, city, country
locationQuery(specificLocation, city, country) ==
    join(specificLocation \o city \o <<country>>)

GeoCities == {Delhi, <<" ">> \o toLowerCase(Delhi), NewDelhi, Lombok}
GeoCountries == {India, Indonesia}
\* analysis.specificLocation: absent or given
GeoSpecifics == {<<>>, <<Bazaar>>}

otherThanGeo == <<scamStories, scamComments, locationStats, ret, fb, visits, run,
                  llmConfigured, runsStarted, redditFetchJobs, fr,
                  geocodeCache, elapsed, recorded,
    userReports>>

\* geocodeAndNormalize is called with the city as location
geocodeCity(city, country) ==
    /\ geocall.pc # "request"
    /\ geocall' = [pc |-> "request", caller |-> "geocodeAndNormalize",
                   city |-> city, country |-> country, location |-> city,
                   query |-> queryString(city, country), result |-> <<>>]

\* geocodeAndNormalize is called by analyzeScamStory, with the string it builds
geocodeForStory(specificLocation, city, country) ==
    /\ geocall.pc # "request"
    /\ LET location == locationQuery(specificLocation, <<city>>, country)
       IN geocall' = [pc |-> "request",
                      caller |-> IF specificLocation = <<>> THEN "analyzeScamStory"
                                 ELSE "analyzeScamStory, specificLocation",
                      city |-> city, country |-> country, location |-> location,
                      query |-> queryString(location, country), result |-> <<>>]

\* the request is answered and geocodeLocationDetailed returns
geocodeAnswered(resp) ==
    /\ geocall.pc = "request"
    /\ geocall' = [geocall EXCEPT
                      !.pc = "done",
                      !.result = geocodeLocationDetailed(geocall.location,
                                                         geocall.country, resp)]

InitGeo ==
    /\ scamStories = <<>>
    /\ scamComments = <<>>
    /\ locationStats = <<>>
    /\ ret = [op |-> "none", arg |-> "", result |-> "void"]
    /\ fb = NoBatch
    /\ visits = <<>>
    /\ run = NoRuns
    /\ llmConfigured = TRUE
    /\ runsStarted = 0
    /\ redditFetchJobs = <<>>
    /\ fr = NoFetch
    /\ geocall = [pc |-> "idle"]
    /\ geocodeCache = NoCache
    /\ elapsed = 0
    /\ recorded = NoHistory
    /\ userReports = <<>>

NextGeo ==
    \/ \E city \in GeoCities, country \in GeoCountries :
           geocodeCity(city, country) /\ UNCHANGED otherThanGeo
    \/ \E specificLocation \in GeoSpecifics, city \in GeoCities, country \in GeoCountries :
           geocodeForStory(specificLocation, city, country) /\ UNCHANGED otherThanGeo
    \/ \E resp \in GeoResponses : geocodeAnswered(resp) /\ UNCHANGED otherThanGeo

SpecGeo == InitGeo /\ [][NextGeo]_vars

-----------------------------------------------------------------------------
(* The geocoder's cache                                                     *)
(*                                                                          *)
(* geocodeLocation looks its location up in geocodeCache, a Map of the      *)
(* module, before it calls Mapbox; geocodeLocationDetailed, which           *)
(* geocodeAndNormalize calls, has no cache.  A behaviour is the life of one *)
(* process; recorded is the set of <<function, cache key>> that were        *)
(* resolved with a result.                                                  *)

NoneResolved == {}

\* location.toLowerCase().trim()
cacheKey(location) == trim(toLowerCase(location))

\* geocodeLocation after a cache miss: result is <<>> for null, else
\* <<coordinates>>; cached: geocodeCache.set was reached.  countryHint is
\* <<>> when the caller passes none
geocodeLocation(location, countryHint, resp) ==
    IF resp.kind # "feature" THEN [result |-> <<>>, cached |-> FALSE]
    ELSE LET lat == resp.feature.lat
             lng == resp.feature.lng
             locationLower == trim(toLowerCase(location))
             hintHas(name) ==
                 /\ countryHint # <<>>
                 /\ includes(toLowerCase(countryHint[1]), toLowerCase(name))
         IN IF /\ locationLower = toLowerCase(Delhi)
               /\ hintHas(India)
               /\ (Abs(lat - 286000) > 50000 \/ Abs(lng - 772000) > 50000)
            THEN [result |-> <<[lat |-> 286139, lng |-> 772090]>>, cached |-> FALSE]
            ELSE IF /\ locationLower = toLowerCase(Lombok)
                    /\ hintHas(Indonesia)
                    /\ (Abs(lat - (-86500)) > 20000 \/ Abs(lng - 1163000) > 20000)
            THEN [result |-> <<[lat |-> -86500, lng |-> 1163249]>>, cached |-> FALSE]
            ELSE [result |-> <<[lat |-> lat, lng |-> lng]>>, cached |-> TRUE]

\* geocodeCache.set(cacheKey, coords)
CacheSet(cache, key, coords) ==
    [k \in DOMAIN cache \cup {key} |-> IF k = key THEN coords ELSE cache[k]]

\* the cities the process is asked to resolve, and their country
CacheCities == {Delhi, <<" ">> \o toLowerCase(Delhi), Lombok}
CacheCountries == {India}

otherThanCache == <<scamStories, scamComments, locationStats, ret, fb, visits, run,
                    llmConfigured, runsStarted, redditFetchJobs, fr, elapsed,
    userReports>>

\* geocodeSingleLocation and the other callers of geocodeLocation (none
\* passes a countryHint): the cache check, and the request on a miss
geocodeSingleLocation(location) ==
    /\ geocall.pc # "request"
    /\ geocall' =
          IF cacheKey(location) \in DOMAIN geocodeCache
          THEN [pc |-> "done", caller |-> "geocodeLocation", location |-> location,
                result |-> <<geocodeCache[cacheKey(location)]>>]
          ELSE [pc |-> "request", caller |-> "geocodeLocation", location |-> location,
                result |-> <<>>]
    /\ UNCHANGED <<geocodeCache, recorded>>

\* the request of geocodeLocation is answered (or, with no token, is not
\* made) and geocodeLocation returns
geocodeLocationAnswered(resp) ==
    /\ geocall.pc = "request"
    /\ geocall.caller = "geocodeLocation"
    /\ LET g == geocodeLocation(geocall.location, <<>>, resp)
           key == cacheKey(geocall.location)
       IN /\ geocall' = [geocall EXCEPT !.pc = "done", !.result = g.result]
          /\ geocodeCache' = IF g.cached THEN CacheSet(geocodeCache, key, g.result[1])
                             ELSE geocodeCache
          /\ recorded' = IF g.result # <<>>
                         THEN recorded \cup {<<"geocodeLocation", key>>}
                         ELSE recorded

\* analyzeScamStory calls geocodeAndNormalize
geocodeAndNormalizeCalled(city, country) ==
    /\ geocodeForStory(<<>>, city, country)
    /\ UNCHANGED <<geocodeCache, recorded>>

\* the request of geocodeLocationDetailed is answered and geocodeAndNormalize
\* returns
geocodeAndNormalizeAnswered(resp) ==
    /\ geocall.caller # "geocodeLocation"
    /\ geocodeAnswered(resp)
    /\ recorded' = IF geocall'.result # <<>>
                   THEN recorded \cup {<<"geocodeAndNormalize",
                                         cacheKey(geocall.location)>>}
                   ELSE recorded
    /\ UNCHANGED geocodeCache

InitCache ==
    /\ scamStories = <<>>
    /\ scamComments = <<>>
    /\ locationStats = <<>>
    /\ ret = [op |-> "none", arg |-> "", result |-> "void"]
    /\ fb = NoBatch
    /\ visits = <<>>
    /\ run = NoRuns
    /\ llmConfigured = TRUE
    /\ runsStarted = 0
    /\ redditFetchJobs = <<>>
    /\ fr = NoFetch
    /\ geocall = [pc |-> "idle", caller |-> "none"]
    /\ geocodeCache = NoCache
    /\ elapsed = 0
    /\ recorded = NoneResolved
    /\ userReports = <<>>

NextCache ==
    \/ \E city \in CacheCities :
           geocodeSingleLocation(city) /\ UNCHANGED otherThanCache
    \/ \E resp \in GeoResponses :
           geocodeLocationAnswered(resp) /\ UNCHANGED otherThanCache
    \/ \E city \in CacheCities, country \in CacheCountries :
           geocodeAndNormalizeCalled(city, country) /\ UNCHANGED otherThanCache
    \/ \E resp \in GeoResponses :
           geocodeAndNormalizeAnswered(resp) /\ UNCHANGED otherThanCache

SpecCache == InitCache /\ [][NextCache]_vars

-----------------------------------------------------------------------------
(* geocodeLocation in front of a deterministic geocoder: the answer to a    *)
(* request is a function of the request.  geocall holds the geocoder of     *)
(* the behaviour, recorded the input each cache entry was filled by, and    *)
(* ret the result of the last call beside what the same call gives with no  *)
(* cache.                                                                   *)

\* countryToIso2: the code of COUNTRY_CODE_MAP, known here by its key
countryToIso2(countryHint) ==
    IF countryHint = <<>> THEN <<>> ELSE <<trim(toLowerCase(countryHint[1]))>>

\* the request geocodeLocation sends: q and the country filter
geocodeRequest(location, countryHint) ==
    [q |-> IF countryHint = <<>> THEN trim(location)
           ELSE queryString(location, countryHint[1]),
     country |-> countryToIso2(countryHint)]

MemoLocations == {Delhi, <<" ">> \o toLowerCase(Delhi)}
MemoHints == {<<>>, <<India>>}
MemoRequests == {geocodeRequest(l, h) : l \in MemoLocations, h \in MemoHints}
\* what a request can be answered with: no feature, or a place called Delhi
MemoResponses ==
    {r \in GeoResponses :
        r.kind = "empty" \/ (r.kind = "feature" /\ r.feature.city = <<Delhi>>)}

NotFilled == <<>>

\* one call of geocodeLocation, from the cache check to the return
geocodeLocationCall(location, countryHint) ==
    LET key == cacheKey(location)
        hit == key \in DOMAIN geocodeCache
        g == geocodeLocation(location, countryHint,
                             geocall.geocoder[geocodeRequest(location, countryHint)])
    IN /\ ret' = [op |-> "geocodeLocation", arg |-> <<location, countryHint>>,
                  result |-> IF hit THEN <<geocodeCache[key]>> ELSE g.result,
                  uncached |-> g.result,
                  filledBy |-> IF hit THEN recorded[key] ELSE <<location, countryHint>>]
       /\ geocodeCache' = IF ~hit /\ g.cached
                          THEN CacheSet(geocodeCache, key, g.result[1])
                          ELSE geocodeCache
       /\ recorded' = IF ~hit /\ g.cached
                      THEN CacheSet(recorded, key, <<location, countryHint>>)
                      ELSE recorded
       /\ UNCHANGED geocall

InitMemo ==
    /\ scamStories = <<>>
    /\ scamComments = <<>>
    /\ locationStats = <<>>
    /\ ret = [op |-> "none", arg |-> "", result |-> "void"]
    /\ fb = NoBatch
    /\ visits = <<>>
    /\ run = NoRuns
    /\ llmConfigured = TRUE
    /\ runsStarted = 0
    /\ redditFetchJobs = <<>>
    /\ fr = NoFetch
    /\ geocall \in [pc : {"idle"}, geocoder : [MemoRequests -> MemoResponses]]
    /\ geocodeCache = NoCache
    /\ elapsed = 0
    /\ recorded = NotFilled
    /\ userReports = <<>>

otherThanMemo == <<scamStories, scamComments, locationStats, fb, visits, run,
                   llmConfigured, runsStarted, redditFetchJobs, fr, elapsed,
    userReports>>

NextMemo ==
    \E location \in MemoLocations, countryHint \in MemoHints :
        geocodeLocationCall(location, countryHint) /\ UNCHANGED otherThanMemo

SpecMemo == InitMemo /\ [][NextMemo]_vars

-----------------------------------------------------------------------------
(* regeocodeAllStories.  fr is the running invocation: the page being       *)
(* worked through as the rows the query returned, the map from country to   *)
(* coordinates built at the start, and the three totals.  geocall holds     *)
(* what the last request to the geocoder got.  The totals stop counting at  *)
(* MaxCounted, so that an invocation that never returns is a cycle of       *)
(* finitely many states.                                                    *)

Unknown == <<"U", "n", "k", "n", "o", "w", "n">>

\* { limit: 20 }, and the test stories.length === 20
RegeocodePage == 20
\* getProcessedStoriesWithCoordinates: take(50)
CoordinatesTake == 50
\* the rows of the smaller table
ShortTable == 3
MaxCounted == 2 * RegeocodePage

Counted(n) == Min(n + 1, MaxCounted)

buildLocationQuery(country, city) ==
    IF city # <<>> /\ city # Unknown /\ country # <<>> /\ country # Unknown
    THEN trim(city) \o <<",", " ">> \o trim(country)
    ELSE IF country # <<>> /\ country # Unknown THEN trim(country)
    ELSE <<>>

StoryIds == [k \in 1..Len(scamStories) |-> k]

\* the rows of a query, each with its _id
RowsOf(ids) ==
    [k \in 1..Len(ids) |->
        [_id |-> ids[k], country |-> scamStories[ids[k]].country,
         city |-> scamStories[ids[k]].city,
         coordinates |-> scamStories[ids[k]].coordinates]]

getProcessedStoriesWithCoordinates ==
    RowsOf(Take(SelectSeq(StoryIds, LAMBDA k :
                    /\ scamStories[k].isProcessed
                    /\ scamStories[k].coordinates # <<>>
                    /\ scamStories[k].country # Unknown),
                CoordinatesTake))

getStoriesWithoutCoordinates(limit) ==
    LET stories == Take(SelectSeq(StoryIds, LAMBDA k :
                            /\ scamStories[k].isProcessed
                            /\ scamStories[k].country # Unknown),
                        limit)
    IN RowsOf(SelectSeq(stories, LAMBDA k :
                  \/ scamStories[k].coordinates = <<>>
                  \/ /\ scamStories[k].coordinates[1].lat = 0
                     /\ scamStories[k].coordinates[1].lng = 0))

\* countryCoordinates after the loop over allStoriesWithCoords: a later
\* story of a country replaces an earlier one
RECURSIVE CountryCoordinatesOf(_, _)
CountryCoordinatesOf(rows, map) ==
    IF rows = <<>> THEN map
    ELSE LET story == Head(rows)
         IN CountryCoordinatesOf(Tail(rows),
                IF /\ story.coordinates # <<>>
                   /\ story.country # <<>>
                   /\ story.city # <<>>
                   /\ story.city # Unknown
                THEN CacheSet(map, story.country, story.coordinates[1])
                ELSE map)

IdleRegeocode == [pc |-> "idle"]

otherThanRegeocode == <<scamComments, locationStats, ret, fb, visits, run, llmConfigured,
                        runsStarted, redditFetchJobs, elapsed, recorded,
    userReports>>

\* the invocation up to the loop
regeocodeAllStories(force) ==
    /\ fr.pc = "idle"
    /\ fr' = [pc |-> "loop", force |-> force,
              countryCoordinates |->
                  CountryCoordinatesOf(getProcessedStoriesWithCoordinates, <<>>),
              stories |-> <<>>, fetched |-> 0,
              totalProcessed |-> 0, totalUpdated |-> 0, totalErrors |-> 0]
    /\ UNCHANGED <<scamStories, geocall, geocodeCache>>

\* the head of the while loop: the page is queried; an empty page ends the
\* loop
regeocodeFetchPage ==
    /\ fr.pc = "loop"
    /\ LET stories == IF fr.force THEN getProcessedStoriesWithCoordinates
                      ELSE getStoriesWithoutCoordinates(RegeocodePage)
       IN fr' = [fr EXCEPT !.pc = IF Len(stories) = 0 THEN "returned" ELSE "page",
                           !.stories = stories,
                           !.fetched = Len(stories)]
    /\ UNCHANGED <<scamStories, geocall, geocodeCache>>

\* what one round of the for loop finds for a story: the coordinates are
\* taken from countryCoordinates or from geocodeLocation, which answers from
\* the cache or sends a request that gets resp
RoundOf(story, resp) ==
    LET unknownCity == /\ story.city = Unknown
                       /\ story.country # <<>>
                       /\ story.country # Unknown
        reuse == unknownCity /\ story.country \in DOMAIN fr.countryCoordinates
        query == buildLocationQuery(story.country, story.city)
        skipped == ~unknownCity /\ query = <<>>
        key == cacheKey(query)
        hit == key \in DOMAIN geocodeCache
        g == geocodeLocation(query, <<>>, resp)
        coords == IF reuse THEN <<fr.countryCoordinates[story.country]>>
                  ELSE IF hit THEN <<geocodeCache[key]>>
                  ELSE g.result
        old == IF story.coordinates = <<>> THEN [lat |-> 0, lng |-> 0]
               ELSE story.coordinates[1]
    IN [skipped |-> skipped,
        requested |-> ~reuse /\ ~skipped /\ ~hit,
        key |-> key,
        cached |-> g.cached,
        coords |-> coords,
        needsUpdate |-> /\ coords # <<>>
                        /\ \/ story.coordinates = <<>>
                           \/ fr.force
                           \/ Abs(old.lat - coords[1].lat) > 10
                           \/ Abs(old.lng - coords[1].lng) > 10]

\* one round of the for loop
regeocodeStory(resp) ==
    /\ fr.pc = "page"
    /\ fr.stories # <<>>
    /\ LET story == Head(fr.stories)
           round == RoundOf(story, resp)
       IN /\ geocall' = IF round.requested THEN [pc |-> "idle", last |-> resp.kind]
                        ELSE geocall
          /\ geocodeCache' = IF round.requested /\ round.cached
                             THEN CacheSet(geocodeCache, round.key, round.coords[1])
                             ELSE geocodeCache
          /\ scamStories' = IF ~round.skipped /\ round.needsUpdate
                            THEN [scamStories EXCEPT
                                     ![story._id].coordinates = round.coords]
                            ELSE scamStories
          /\ fr' = IF round.skipped THEN [fr EXCEPT !.stories = Tail(fr.stories)]
                   ELSE [fr EXCEPT
                            !.stories = Tail(fr.stories),
                            !.totalUpdated = IF round.needsUpdate THEN Counted(@) ELSE @,
                            !.totalErrors = IF round.coords = <<>> THEN Counted(@) ELSE @,
                            !.totalProcessed = Counted(@)]

\* after the for loop: hasMore = stories.length === 20 && !args?.force
regeocodePageDone ==
    /\ fr.pc = "page"
    /\ fr.stories = <<>>
    /\ LET hasMore == fr.fetched = RegeocodePage /\ ~fr.force
       IN fr' = [fr EXCEPT !.pc = IF hasMore THEN "loop" ELSE "returned"]
    /\ UNCHANGED <<scamStories, geocall, geocodeCache>>

\* processed stories of one country, the second with an unknown city, all
\* with coordinates or all without
UnknownCityRow == 2

RegeocodeRow(k, coordinates) ==
    [redditId |-> k, isProcessed |-> TRUE, country |-> India,
     city |-> IF k = UnknownCityRow THEN Unknown ELSE Delhi, coordinates |-> coordinates]

\* what a request of this job gets: no feature, or Delhi
RegeocodeResponses ==
    {resp \in GeoResponses :
        \/ resp.kind = "empty"
        \/ resp.kind = "feature" /\ resp.feature.lat = 286139}

InitRegeocode ==
    /\ \E n \in {ShortTable, RegeocodePage},
          coordinates \in {<<>>, <<[lat |-> 286139, lng |-> 772090]>>} :
           scamStories = [k \in 1..n |-> RegeocodeRow(k, coordinates)]
    /\ scamComments = <<>>
    /\ locationStats = <<>>
    /\ ret = [op |-> "none", arg |-> "", result |-> "void"]
    /\ fb = NoBatch
    /\ visits = <<>>
    /\ run = NoRuns
    /\ llmConfigured = TRUE
    /\ runsStarted = 0
    /\ redditFetchJobs = <<>>
    /\ fr = IdleRegeocode
    /\ geocall = [pc |-> "idle", last |-> "none"]
    /\ geocodeCache = NoCache
    /\ elapsed = 0
    /\ recorded = {}
    /\ userReports = <<>>

RegeocodeRound ==
    \E resp \in RegeocodeResponses : regeocodeStory(resp) /\ UNCHANGED otherThanRegeocode

NextRegeocode ==
    \/ \E force \in BOOLEAN : regeocodeAllStories(force) /\ UNCHANGED otherThanRegeocode
    \/ regeocodeFetchPage /\ UNCHANGED otherThanRegeocode
    \/ RegeocodeRound
    \/ regeocodePageDone /\ UNCHANGED otherThanRegeocode

\* a round of the for loop is possible: ENABLED of RegeocodeRound
RoundPending == fr.pc = "page" /\ fr.stories # <<>>

\* the runtime runs the invocation on, every await resumes: weak fairness of
\* each step, that of the round with its enabling condition written out
FairRegeocode ==
    /\ InitRegeocode
    /\ [][NextRegeocode]_vars
    /\ WF_vars(\E force \in BOOLEAN :
                   regeocodeAllStories(force) /\ UNCHANGED otherThanRegeocode)
    /\ WF_vars(regeocodeFetchPage /\ UNCHANGED otherThanRegeocode)
    /\ WF_vars(regeocodePageDone /\ UNCHANGED otherThanRegeocode)
    /\ ([]<>(~RoundPending) \/ []<><<RegeocodeRound>>_vars)

-----------------------------------------------------------------------------
(* reportStory.  The table users is fixed; an identity is <<>> when the     *)
(* caller is not logged in, else the email of the identity.  The rows of    *)
(* scamStories carry the counter the mutation writes.                       *)

MaxReported == 2
MaxReports == 4

\* the table users: _id = position
users == <<[email |-> "a@x"], [email |-> "b@x"]>>

Identities == {<<>>, <<"a@x">>, <<"b@x">>, <<"c@x">>}
ReportTypes == {"fake", "other"}
ReportPosts == {"p1", "p2"}

\* the row storeRawPost inserts, with its counters
NewCountedStory(p) == [postId |-> p, helpfulCount |-> 0, reportCount |-> 0]

\* query("users").withIndex("email").filter(email = identity.email).first()
FirstUser(email) ==
    LET found == {k \in 1..Len(users) : users[k].email = email}
    IN IF found = {} THEN 0 ELSE CHOOSE k \in found : \A j \in found : k <= j

\* reportStory without the check for an earlier report
FirstReportUnchecked(reports, storyId, userId) == 0

\* query("userReports").withIndex("by_story").filter(storyId, userId).first()
FirstReport(reports, storyId, userId) ==
    LET found == {k \in 1..Len(reports) :
                     reports[k].storyId = storyId /\ reports[k].userId = userId}
    IN IF found = {} THEN 0 ELSE CHOOSE k \in found : \A j \in found : k <= j

otherThanReport == <<scamComments, locationStats, fb, visits, run, llmConfigured,
                     runsStarted, redditFetchJobs, fr, geocall, geocodeCache, elapsed,
                     recorded>>

\* storeRawPost, as far as the counters go
storeCountedPost(p) ==
    /\ Len(scamStories) < MaxReported
    /\ FirstStoryByPostId(scamStories, p) = 0
    /\ scamStories' = Append(scamStories, NewCountedStory(p))
    /\ ret' = [op |-> "storeRawPost", arg |-> p, result |-> "inserted"]
    /\ UNCHANGED userReports

ReportThrew(identity, storyId, message) ==
    [op |-> "reportStory", arg |-> <<identity, storyId>>, result |-> "threw",
     message |-> message]

\* the mutation reportStory: storyId is the _id of a row of scamStories
reportStory(identity, storyId, reportType) ==
    /\ Len(userReports) < MaxReports
    /\ IF identity = <<>>
       THEN /\ ret' = ReportThrew(identity, storyId, "Must be logged in to report")
            /\ UNCHANGED <<scamStories, userReports>>
       ELSE LET user == FirstUser(identity[1])
            IN IF user = 0
               THEN /\ ret' = ReportThrew(identity, storyId, "User not found")
                    /\ UNCHANGED <<scamStories, userReports>>
               ELSE IF FirstReport(userReports, storyId, user) # 0
               THEN /\ ret' = ReportThrew(identity, storyId,
                                          "Already reported this story")
                    /\ UNCHANGED <<scamStories, userReports>>
               ELSE /\ userReports' = Append(userReports,
                                             [userId |-> user, storyId |-> storyId,
                                              reportType |-> reportType])
                    /\ scamStories' =
                          [scamStories EXCEPT ![storyId].reportCount = @ + 1]
                    /\ ret' = [op |-> "reportStory", arg |-> <<identity, storyId>>,
                               result |-> "success", message |-> ""]

InitReport ==
    /\ InitTables
    /\ fb = NoBatch
    /\ visits = <<>>
    /\ run = NoRuns
    /\ llmConfigured = TRUE
    /\ runsStarted = 0

NextReport ==
    \/ \E p \in ReportPosts : storeCountedPost(p) /\ UNCHANGED otherThanReport
    \/ \E identity \in Identities, storyId \in 1..Len(scamStories),
          reportType \in ReportTypes :
           reportStory(identity, storyId, reportType) /\ UNCHANGED otherThanReport

SpecReport == InitReport /\ [][NextReport]_vars

-----------------------------------------------------------------------------
(* The enrichment engine.  analyzeScamStory and the jobs that call it       *)
(* (processUnanalyzedStories, processUnanalyzedStoriesBatch and             *)
(* reprocessUnknownLocations) are actions: a runner is one job invocation   *)
(* and takes one step per call it awaits.  Invocations are not serialized   *)
(* against each other, so the steps of different runners interleave.        *)

\* the job invocations of a behaviour
Runners == DOMAIN run
\* jobs started in one behaviour
MaxRuns == 3
\* largest explicit limit argument of processUnanalyzedStoriesBatch
MaxLimit == 1
\* the attempt cutoff the retry policy is checked against
MaxCutoff == 2

\* getUnprocessedStories: .take(10)
UnprocessedTake == 10
\* processUnanalyzedStoriesBatch: args.limit || 10
DefaultLimit == 10
\* getStoriesWithUnknownLocation: .take(10)
UnknownTake == 10

Limits == {<<>>} \cup {<<n>> : n \in 1..MaxLimit}

\* the literals updateLocationStats accepts as scamType
ScamTypes ==
    IncidentTypes \cup {"accommodation", "restaurant", "shopping", "pickpocket",
                        "romance", "timeshare", "fake_ticket",
                        "currency_exchange", "other"}

\* a map that knows no type
scamTypeOther(t) == "other"

\* updateStoryWithAnalysis: scamTypeMap[args.analysis.scamType] || "other"
scamTypeMap(t) == IF t \in ScamTypes THEN t ELSE "other"

\* the analysis analyzeWithOpenAI returns from its catch block
DefaultAnalysis ==
    [isScamStory |-> FALSE, confidence |-> 0, country |-> "Unknown",
     city |-> <<>>, scamType |-> "other", moneyLost |-> <<>>,
     summary |-> "API error - could not analyze", wellFormed |-> TRUE]

\* objects the LLM can answer with (valid JSON that names a country);
\* confidence is in tenths; wellFormed: the object passes the validator of
\* updateStoryWithAnalysis
LlmResults ==
    {[DefaultAnalysis EXCEPT !.isScamStory = TRUE, !.confidence = 9,
                             !.country = "Thailand", !.city = <<"Bangkok">>,
                             !.scamType = "taxi", !.summary = "meter off"],
     [DefaultAnalysis EXCEPT !.isScamStory = TRUE, !.confidence = 7,
                             !.scamType = "tour", !.summary = "fake tour"],
     [DefaultAnalysis EXCEPT !.isScamStory = TRUE, !.confidence = 7,
                             !.scamType = "fraud", !.summary = "fraud"],
     [DefaultAnalysis EXCEPT !.isScamStory = TRUE, !.confidence = 9,
                             !.scamType = "taxi", !.summary = "meter off",
                             !.wellFormed = FALSE],
     [DefaultAnalysis EXCEPT !.confidence = 8, !.summary = "a question"]}

\* the ways the model call of analyzeWithOpenAI fails
ModelCallFailures == {"timeout", "http_error", "invalid_json"}
\* ... and the answer that fails its own validation (no country)
LlmFailures == ModelCallFailures \cup {"no_country"}

LlmOutcomes ==
    {[kind |-> k, result |-> DefaultAnalysis] : k \in LlmFailures}
        \cup {[kind |-> "ok", result |-> a] : a \in LlmResults}

\* analyzeWithOpenAI with every failure of the call rethrown
analyzeWithOpenAIRethrow(configured, o) ==
    IF ~configured \/ o.kind \in LlmFailures
    THEN [threw |-> TRUE, error |-> "LLM API error", llm |-> o.kind,
          analysis |-> DefaultAnalysis]
    ELSE [threw |-> FALSE, error |-> "", llm |-> o.kind, analysis |-> o.result]

\* analyzeWithOpenAI: the configuration checks throw; everything inside the
\* try block ends in the default analysis
analyzeWithOpenAI(configured, o) ==
    IF ~configured
    THEN [threw |-> TRUE, error |-> "LLM API key not configured",
          llm |-> "not_called", analysis |-> DefaultAnalysis]
    ELSE IF o.kind \in LlmFailures
    THEN [threw |-> FALSE, error |-> "", llm |-> o.kind, analysis |-> DefaultAnalysis]
    ELSE [threw |-> FALSE, error |-> "", llm |-> o.kind, analysis |-> o.result]

\* what geocodeAndNormalize answers: no result, or Mapbox's coordinates and
\* canonical names
GeoResults ==
    {[success |-> FALSE, coordinates |-> <<>>, country |-> <<>>, city |-> <<>>],
     [success |-> TRUE, coordinates |-> <<"geo1">>, country |-> <<"Thailand">>,
      city |-> <<"Bangkok">>]}

\* the text of a comment, by what analyzeComment looks at
CommentContent(c) ==
    IF c = "c1" THEN "long_advice" ELSE IF c = "c3" THEN "long_story" ELSE "plain"

\* analyzeComment
analyzeComment(content) ==
    LET containsAdvice == content \in {"long_advice", "short_advice"}
    IN [isHelpful |-> containsAdvice /\ content = "long_advice",
        containsAdvice |-> containsAdvice]

\* getStoryComments
getStoryComments(sid) ==
    InOrder({k \in 1..Len(scamComments) : scamComments[k].storyId = sid})

\* getUnprocessedStories
getUnprocessedStories ==
    Take(InOrder({k \in 1..Len(scamStories) : ~scamStories[k].isProcessed}),
         UnprocessedTake)

\* getUnprocessedStoriesBatch
getUnprocessedStoriesBatch(limit) ==
    Take(InOrder({k \in 1..Len(scamStories) : ~scamStories[k].isProcessed}), limit)

\* getStoriesWithUnknownLocation
getStoriesWithUnknownLocation ==
    Take(InOrder({k \in 1..Len(scamStories) :
                     scamStories[k].isProcessed /\ scamStories[k].country = "Unknown"}),
         UnknownTake)

\* a job invocation that is not running.  calls: the calls the work on the
\* current record has made so far, in the order they were made; comments,
\* com, processed, limit: the locals of analyzeCommentsForScams
Idle ==
    [pc |-> "idle", job |-> "none", queue |-> <<>>, cur |-> 0,
     analysis |-> DefaultAnalysis, coordinates |-> <<>>, llm |-> "none",
     error |-> "", calls |-> <<>>, comments |-> <<>>, com |-> 0,
     processed |-> 0, limit |-> 0]

\* the head of the for loop of a job: the next story of the snapshot the
\* job's query returned, or the return of the job
NextStory(job, queue) ==
    IF queue = <<>> THEN Idle
    ELSE [Idle EXCEPT !.job = job, !.queue = Tail(queue), !.cur = Head(queue),
                      !.pc = IF job = "reprocessUnknownLocations"
                             THEN "resetStoryForReprocessing"
                             ELSE "getStoryById"]

\* the stories a job that has just started is going to handle
Selected(rec) ==
    IF rec.pc = "idle" THEN {}
    ELSE {rec.cur} \cup {rec.queue[k] : k \in 1..Len(rec.queue)}

\* what analyzeScamStory returned (or that it threw) and to which outcome of
\* the model call
Returned(sid, result, llm) ==
    [op |-> "analyzeScamStory", arg |-> sid, result |-> result, llm |-> llm]

otherThanEnrich == <<fb, visits, llmConfigured, redditFetchJobs, fr, geocall, geocodeCache, elapsed,
          recorded,
    userReports>>

\* processUnanalyzedStories: the query, then the loop
processUnanalyzedStories(r) ==
    /\ run[r].pc = "idle"
    /\ runsStarted < MaxRuns
    /\ runsStarted' = runsStarted + 1
    /\ run' = [run EXCEPT ![r] = NextStory("processUnanalyzedStories",
                                           getUnprocessedStories)]
    /\ UNCHANGED <<scamStories, scamComments, locationStats, ret>>

\* processUnanalyzedStoriesBatch: the query, then the loop
processUnanalyzedStoriesBatch(r, limit) ==
    /\ run[r].pc = "idle"
    /\ runsStarted < MaxRuns
    /\ runsStarted' = runsStarted + 1
    /\ run' = [run EXCEPT ![r] =
                  NextStory("processUnanalyzedStoriesBatch",
                            getUnprocessedStoriesBatch(
                                IF limit = <<>> \/ limit[1] = 0
                                THEN DefaultLimit ELSE limit[1]))]
    /\ UNCHANGED <<scamStories, scamComments, locationStats, ret>>

\* reprocessUnknownLocations: the query, then the loop
reprocessUnknownLocations(r) ==
    /\ run[r].pc = "idle"
    /\ runsStarted < MaxRuns
    /\ runsStarted' = runsStarted + 1
    /\ run' = [run EXCEPT ![r] = NextStory("reprocessUnknownLocations",
                                           getStoriesWithUnknownLocation)]
    /\ UNCHANGED <<scamStories, scamComments, locationStats, ret>>

\* resetStoryForReprocessing, called by reprocessUnknownLocations
resetStoryForReprocessing(r) ==
    /\ run[r].pc = "resetStoryForReprocessing"
    /\ scamStories' = [scamStories EXCEPT ![run[r].cur].isProcessed = FALSE]
    /\ run' = [run EXCEPT ![r].pc = "getStoryById"]
    /\ UNCHANGED <<scamComments, locationStats, ret, runsStarted>>

\* analyzeScamStory: getStoryById and the early return
getStoryById(r) ==
    /\ run[r].pc = "getStoryById"
    /\ IF scamStories[run[r].cur].isProcessed
       THEN /\ run' = [run EXCEPT ![r] = NextStory(run[r].job, run[r].queue)]
            /\ ret' = Returned(run[r].cur, "not_analyzed", "not_called")
       ELSE /\ run' = [run EXCEPT ![r].pc = "analyzeWithOpenAI", ![r].calls = <<>>]
            /\ UNCHANGED ret
    /\ UNCHANGED <<scamStories, scamComments, locationStats, runsStarted>>

\* analyzeScamStory: the call of analyzeWithOpenAI and the branch on its result
callAnalyzeWithOpenAI(r, o) ==
    /\ run[r].pc = "analyzeWithOpenAI"
    /\ LET a == analyzeWithOpenAI(llmConfigured, o)
       IN run' = [run EXCEPT ![r] =
                     [@ EXCEPT !.llm = a.llm,
                               !.error = a.error,
                               !.analysis = a.analysis,
                               !.calls = Append(@, "analyzeWithOpenAI"),
                               !.pc = IF a.threw THEN "markProcessingError"
                                      ELSE IF ~a.analysis.isScamStory THEN "markAsNotScam"
                                      ELSE IF a.analysis.country # "Unknown"
                                      THEN "geocodeAndNormalize"
                                      ELSE "updateStoryWithAnalysis"]]
    /\ UNCHANGED <<scamStories, scamComments, locationStats, ret, runsStarted>>

\* analyzeScamStory: geocodeAndNormalize and the canonical names
geocodeAndNormalize(r, geo) ==
    /\ run[r].pc = "geocodeAndNormalize"
    /\ run' = [run EXCEPT ![r] =
                  IF geo.success /\ geo.coordinates # <<>>
                  THEN [@ EXCEPT !.coordinates = geo.coordinates,
                                 !.analysis.country = IF geo.country # <<>>
                                                      THEN geo.country[1] ELSE @,
                                 !.analysis.city = IF geo.city # <<>>
                                                   THEN geo.city ELSE @,
                                 !.calls = Append(@, "geocodeAndNormalize"),
                                 !.pc = "updateStoryWithAnalysis"]
                  ELSE [@ EXCEPT !.calls = Append(@, "geocodeAndNormalize"),
                                 !.pc = "updateStoryWithAnalysis"]]
    /\ UNCHANGED <<scamStories, scamComments, locationStats, ret, runsStarted>>

\* updateStoryWithAnalysis (its argument validator throws on an object of
\* another shape)
updateStoryWithAnalysis(r) ==
    /\ run[r].pc = "updateStoryWithAnalysis"
    /\ LET a == run[r].analysis
       IN IF ~a.wellFormed
          THEN /\ run' = [run EXCEPT ![r].pc = "markProcessingError",
                                     ![r].error = "ArgumentValidationError"]
               /\ UNCHANGED scamStories
          ELSE /\ scamStories' =
                     [scamStories EXCEPT ![run[r].cur] =
                        [@ EXCEPT !.summary = a.summary,
                                  !.country = a.country,
                                  !.city = a.city,
                                  !.scamType = scamTypeMap(a.scamType),
                                  !.aiConfidenceScore = a.confidence,
                                  !.isProcessed = TRUE,
                                  !.coordinates = IF run[r].coordinates # <<>>
                                                  THEN run[r].coordinates ELSE @]]
               /\ run' = [run EXCEPT ![r].pc =
                             IF getStoryComments(run[r].cur) # <<>>
                             THEN "updateCommentAnalysis"
                             ELSE "updateLocationStats"]
    /\ UNCHANGED <<scamComments, locationStats, ret, runsStarted>>

\* analyzeScamStory: the loop over the story's comments, each patched by
\* updateCommentAnalysis with what analyzeComment says of its text
updateCommentAnalysis(r) ==
    /\ run[r].pc = "updateCommentAnalysis"
    /\ scamComments' =
          [k \in 1..Len(scamComments) |->
              IF scamComments[k].storyId = run[r].cur
              THEN LET c == analyzeComment(CommentContent(scamComments[k].redditCommentId))
                   IN [scamComments[k] EXCEPT !.isHelpful = c.isHelpful,
                                              !.containsAdvice = c.containsAdvice,
                                              !.isAnalyzedForScam = "true"]
              ELSE scamComments[k]]
    /\ run' = [run EXCEPT ![r].pc = "updateLocationStats"]
    /\ UNCHANGED <<scamStories, locationStats, ret, runsStarted>>

\* updateLocationStats (its validator throws on a scamType outside the
\* literals), then the return of analyzeScamStory
updateLocationStats(r) ==
    /\ run[r].pc = "updateLocationStats"
    /\ LET a == run[r].analysis
       IN IF a.scamType \notin ScamTypes
          THEN /\ run' = [run EXCEPT ![r].pc = "markProcessingError",
                                     ![r].error = "ArgumentValidationError",
                                     ![r].calls = Append(@, "updateLocationStats")]
               /\ UNCHANGED <<locationStats, ret>>
          ELSE /\ locationStats' = StatsAfter(locationStats, a.country, a.city,
                                              a.scamType, a.moneyLost, <<>>)
               /\ run' = [run EXCEPT ![r] =
                             [NextStory(run[r].job, run[r].queue) EXCEPT
                                 !.calls = Append(run[r].calls, "updateLocationStats")]]
               /\ ret' = Returned(run[r].cur, "scam", run[r].llm)
    /\ UNCHANGED <<scamStories, scamComments, runsStarted>>

\* markAsNotScam keeping the classifier's confidence
markAsNotScamScored(r) ==
    /\ run[r].pc = "markAsNotScam"
    /\ scamStories' = [scamStories EXCEPT ![run[r].cur] =
                          [@ EXCEPT !.isProcessed = TRUE,
                                    !.aiConfidenceScore = run[r].analysis.confidence,
                                    !.verificationStatus = "ai_flagged"]]
    /\ run' = [run EXCEPT ![r] = NextStory(run[r].job, run[r].queue)]
    /\ ret' = Returned(run[r].cur, "not_scam", run[r].llm)
    /\ UNCHANGED <<scamComments, locationStats, runsStarted>>

\* markAsNotScam, then the return of analyzeScamStory
markAsNotScam(r) ==
    /\ run[r].pc = "markAsNotScam"
    /\ scamStories' = [scamStories EXCEPT ![run[r].cur] =
                          [@ EXCEPT !.isProcessed = TRUE,
                                    !.aiConfidenceScore = 0,
                                    !.verificationStatus = "ai_flagged"]]
    /\ run' = [run EXCEPT ![r] = NextStory(run[r].job, run[r].queue)]
    /\ ret' = Returned(run[r].cur, "not_scam", run[r].llm)
    /\ UNCHANGED <<scamComments, locationStats, runsStarted>>

\* the catch block of analyzeScamStory: markProcessingError, then the error
\* is thrown again and the loop of the job goes on with its next story
markProcessingError(r) ==
    /\ run[r].pc = "markProcessingError"
    /\ scamStories' = [scamStories EXCEPT ![run[r].cur].processingErrors =
                          Append(@, run[r].error)]
    /\ run' = [run EXCEPT ![r] = NextStory(run[r].job, run[r].queue)]
    /\ ret' = Returned(run[r].cur, "threw", run[r].llm)
    /\ UNCHANGED <<scamComments, locationStats, runsStarted>>

\* the stored posts, the first with one comment, and no analysis yet
InitStored(posts, runners) ==
    /\ InitQuiet
    /\ scamStories = [k \in 1..Len(posts) |-> NewStory(posts[k])]
    /\ scamComments = <<NewRawComment(1, "c1")>>
    /\ locationStats = <<>>
    /\ ret = [op |-> "none", arg |-> "", result |-> "void"]
    /\ fb = NoBatch
    /\ visits = <<>>
    /\ run = [r \in runners |-> Idle]
    /\ llmConfigured \in BOOLEAN
    /\ runsStarted = 0

NextEnrich ==
    \/ \E r \in Runners : processUnanalyzedStories(r) /\ UNCHANGED otherThanEnrich
    \/ \E r \in Runners, limit \in Limits :
           processUnanalyzedStoriesBatch(r, limit) /\ UNCHANGED otherThanEnrich
    \/ \E r \in Runners : getStoryById(r) /\ UNCHANGED otherThanEnrich
    \/ \E r \in Runners, o \in LlmOutcomes :
           callAnalyzeWithOpenAI(r, o) /\ UNCHANGED otherThanEnrich
    \/ \E r \in Runners, geo \in GeoResults :
           geocodeAndNormalize(r, geo) /\ UNCHANGED otherThanEnrich
    \/ \E r \in Runners : updateStoryWithAnalysis(r) /\ UNCHANGED otherThanEnrich
    \/ \E r \in Runners : updateCommentAnalysis(r) /\ UNCHANGED otherThanEnrich
    \/ \E r \in Runners : updateLocationStats(r) /\ UNCHANGED otherThanEnrich
    \/ \E r \in Runners : markAsNotScam(r) /\ UNCHANGED otherThanEnrich
    \/ \E r \in Runners : markProcessingError(r) /\ UNCHANGED otherThanEnrich

    \/ \E r \in Runners : reprocessUnknownLocations(r) /\ UNCHANGED otherThanEnrich
    \/ \E r \in Runners : resetStoryForReprocessing(r) /\ UNCHANGED otherThanEnrich

\* two stories, one job invocation at a time
InitEnrich == InitStored(<<"p1", "p2">>, {"job1"})

SpecEnrich == InitEnrich /\ [][NextEnrich]_vars

\* one story, two job invocations that can overlap
InitOverlap == InitStored(<<"p1">>, {"job1", "job2"})

SpecOverlap == InitOverlap /\ [][NextEnrich]_vars

-----------------------------------------------------------------------------
(* The read queries over scamStories                                        *)
(*                                                                          *)
(* What a stored post carries besides its classification is fixed by its    *)
(* postId: its age, its upvotes and the words of its fullStory.  A query    *)
(* leaves in ret the rows it returns, as positions of scamStories.          *)

\* getScamStories: limit = 50
DefaultStoriesLimit == 50
\* getScamStories: Math.min(limit * 10, 500)
FetchFactor == 10
MaxFetchLimit == 500
\* searchScamStories: .take(50)
SearchTake == 50
\* getTrendingScams: limit = 10
DefaultTrendingLimit == 10

\* days since postDate
PostAgeDays(p) == IF p = "p1" THEN 3 ELSE 20
Upvotes(p) == IF p = "p1" THEN 10 ELSE 50
\* the search index on fullStory finds the word in the post
Mentions(p, word) == word = "scam" \/ (p = "p1" /\ word = "taxi")
SearchWords == {"scam", "taxi"}
\* getTrendingScams: the cutoff of a timeframe, in days
TimeframeDays == [day |-> 1, week |-> 7, month |-> 30]
\* optional filter arguments: <<>> is "not given"
CountryArgs == {<<>>, <<"Thailand">>}
ScamTypeArgs == {<<>>, <<"taxi">>}

\* .order("desc"): the rows of S, last inserted first
RECURSIVE Desc(_)
Desc(S) ==
    IF S = {} THEN <<>>
    ELSE LET m == CHOOSE x \in S : \A y \in S : x >= y
         IN <<m>> \o Desc(S \ {m})

\* rows.sort((a, b) => key(b) - key(a)): stable, descending
RECURSIVE SortRowsDesc(_, _, _)
SortRowsDesc(done, rest, key) ==
    IF rest = <<>> THEN done
    ELSE LET e == Head(rest)
             before == {k \in 1..Len(done) : key[done[k]] >= key[e]}
             n == Cardinality(before)
         IN SortRowsDesc(SubSeq(done, 1, n) \o <<e>> \o SubSeq(done, n + 1, Len(done)),
                         Tail(rest), key)

\* the rows every query of this section would return if it filtered on
\* isProcessed alone
ProcessedRows == {k \in 1..Len(scamStories) : scamStories[k].isProcessed}

\* getScamStories, sorted by date
getScamStories(country, scamType) ==
    LET rows == IF country # <<>>
                THEN {k \in ProcessedRows : scamStories[k].country = country[1]}
                ELSE IF scamType # <<>>
                THEN {k \in ProcessedRows : scamStories[k].scamType = scamType[1]}
                ELSE ProcessedRows
        stories == Take(Desc(rows),
                        Min(DefaultStoriesLimit * FetchFactor, MaxFetchLimit))
        postDate == [k \in 1..Len(scamStories) |-> 0 - PostAgeDays(scamStories[k].postId)]
    IN /\ ret' = [op |-> "getScamStories", arg |-> <<country, scamType>>,
                  result |-> Take(SortRowsDesc(<<>>, stories, postDate),
                                  DefaultStoriesLimit)]
       /\ UNCHANGED <<scamStories, scamComments, locationStats, run, runsStarted>>

\* getScamStoriesForGlobe: nothing for a caller with no identity
getScamStoriesForGlobe(identity) ==
    /\ ret' = [op |-> "getScamStoriesForGlobe", arg |-> identity,
               result |-> IF ~identity THEN <<>>
                          ELSE InOrder({k \in ProcessedRows :
                                           scamStories[k].coordinates # <<>>})]
    /\ UNCHANGED <<scamStories, scamComments, locationStats, run, runsStarted>>

\* getTrendingScams, sorted by score (viewCount is 0 for a stored post)
getTrendingScams(timeframe) ==
    LET stories == Take(Desc({k \in ProcessedRows :
                                PostAgeDays(scamStories[k].postId)
                                    <= TimeframeDays[timeframe]}),
                        DefaultTrendingLimit)
        score == [k \in 1..Len(scamStories) |-> 7 * Upvotes(scamStories[k].postId)]
    IN /\ ret' = [op |-> "getTrendingScams", arg |-> timeframe,
                  result |-> SortRowsDesc(<<>>, stories, score)]
       /\ UNCHANGED <<scamStories, scamComments, locationStats, run, runsStarted>>

\* searchScamStories: the search index, with the filters that are given
searchScamStories(word, country, scamType) ==
    LET results == {k \in 1..Len(scamStories) :
                       /\ Mentions(scamStories[k].postId, word)
                       /\ country # <<>> => scamStories[k].country = country[1]
                       /\ scamType # <<>> => scamStories[k].scamType = scamType[1]}
    IN /\ ret' = [op |-> "searchScamStories", arg |-> <<word, country, scamType>>,
                  result |-> Take(InOrder(results), SearchTake)]
       /\ UNCHANGED <<scamStories, scamComments, locationStats, run, runsStarted>>

\* a read query is answered
ReadQuery ==
    \/ \E country \in CountryArgs, scamType \in ScamTypeArgs :
           getScamStories(country, scamType)
    \/ \E identity \in BOOLEAN : getScamStoriesForGlobe(identity)
    \/ \E timeframe \in DOMAIN TimeframeDays : getTrendingScams(timeframe)
    \/ \E word \in SearchWords, country \in CountryArgs, scamType \in ScamTypeArgs :
           searchScamStories(word, country, scamType)

NextRead ==
    \/ \E r \in Runners : processUnanalyzedStories(r) /\ UNCHANGED otherThanEnrich
    \/ \E r \in Runners : getStoryById(r) /\ UNCHANGED otherThanEnrich
    \/ \E r \in Runners, o \in LlmOutcomes :
           callAnalyzeWithOpenAI(r, o) /\ UNCHANGED otherThanEnrich
    \/ \E r \in Runners, geo \in GeoResults :
           geocodeAndNormalize(r, geo) /\ UNCHANGED otherThanEnrich
    \/ \E r \in Runners : updateStoryWithAnalysis(r) /\ UNCHANGED otherThanEnrich
    \/ \E r \in Runners : updateCommentAnalysis(r) /\ UNCHANGED otherThanEnrich
    \/ \E r \in Runners : updateLocationStats(r) /\ UNCHANGED otherThanEnrich
    \/ \E r \in Runners : markAsNotScam(r) /\ UNCHANGED otherThanEnrich
    \/ \E r \in Runners : markProcessingError(r) /\ UNCHANGED otherThanEnrich
    \/ \E country \in CountryArgs, scamType \in ScamTypeArgs :
           getScamStories(country, scamType) /\ UNCHANGED otherThanEnrich
    \/ \E identity \in BOOLEAN :
           getScamStoriesForGlobe(identity) /\ UNCHANGED otherThanEnrich
    \/ \E timeframe \in DOMAIN TimeframeDays :
           getTrendingScams(timeframe) /\ UNCHANGED otherThanEnrich
    \/ \E word \in SearchWords, country \in CountryArgs, scamType \in ScamTypeArgs :
           searchScamStories(word, country, scamType) /\ UNCHANGED otherThanEnrich

SpecRead == InitEnrich /\ [][NextRead]_vars

-----------------------------------------------------------------------------
(* The enrichment batch against the clock                                   *)
(*                                                                          *)
(* processUnanalyzedStoriesBatch with the time its awaited calls take:      *)
(* elapsed is what Date.now() - startTime would be, had the job taken       *)
(* startTime when it was started.                                           *)

otherThanCeiling == <<fb, visits, llmConfigured, redditFetchJobs, fr, geocall,
                      geocodeCache, recorded,
    userReports>>

\* the job is started: its clock starts at 0
startBatch(r, limit) ==
    /\ processUnanalyzedStoriesBatch(r, limit)
    /\ elapsed' = 0

\* a call the job awaits (the model, the geocoder, the pause between two
\* stories) takes its time
timePasses(d) ==
    /\ \E r \in Runners : run[r].pc # "idle"
    /\ elapsed <= MAX_RUNTIME
    /\ elapsed' = elapsed + d
    /\ UNCHANGED <<scamStories, scamComments, locationStats, ret, run, runsStarted>>

\* the calls of analyzeScamStory
StoryStep(r) ==
    \/ getStoryById(r)
    \/ \E o \in LlmOutcomes : callAnalyzeWithOpenAI(r, o)
    \/ \E geo \in GeoResults : geocodeAndNormalize(r, geo)
    \/ updateStoryWithAnalysis(r)
    \/ updateCommentAnalysis(r)
    \/ updateLocationStats(r)
    \/ markAsNotScam(r)
    \/ markProcessingError(r)

NextCeiling ==
    \/ \E r \in Runners, limit \in Limits :
           startBatch(r, limit) /\ UNCHANGED otherThanCeiling
    \/ \E r \in Runners : StoryStep(r) /\ UNCHANGED otherThanEnrich
    \/ timePasses(SlowUnit) /\ UNCHANGED otherThanCeiling

SpecCeiling == InitEnrich /\ [][NextCeiling]_vars

-----------------------------------------------------------------------------
(* The enrichment batch invoked again and again over a story that errors    *)
(* on every attempt                                                         *)

\* the posts for which the model's answer never passes the validator of
\* updateStoryWithAnalysis
BadPosts == {"p1"}

\* what the model call gives for a post
OutcomesFor(p) ==
    IF p \in BadPosts
    THEN {o \in LlmOutcomes : ~o.result.wellFormed}
    ELSE {o \in LlmOutcomes : o.result.wellFormed}

\* messages of processingErrors that are told apart
MaxErrors == 2

\* processUnanalyzedStoriesBatch, invoked any number of times
processBatchAgain(r, limit) ==
    /\ run[r].pc = "idle"
    /\ run' = [run EXCEPT ![r] =
                  NextStory("processUnanalyzedStoriesBatch",
                            getUnprocessedStoriesBatch(
                                IF limit = <<>> \/ limit[1] = 0
                                THEN DefaultLimit ELSE limit[1]))]
    /\ UNCHANGED <<scamStories, scamComments, locationStats, ret, runsStarted>>

\* markProcessingError; processingErrors is written and never read, and
\* what is appended beyond MaxErrors messages is not told apart
markProcessingErrorAgain(r) ==
    /\ run[r].pc = "markProcessingError"
    /\ scamStories' = [scamStories EXCEPT ![run[r].cur].processingErrors =
                          IF Len(@) < MaxErrors THEN Append(@, run[r].error) ELSE @]
    /\ run' = [run EXCEPT ![r] = NextStory(run[r].job, run[r].queue)]
    /\ ret' = Returned(run[r].cur, "threw", run[r].llm)
    /\ UNCHANGED <<scamComments, locationStats, runsStarted>>

\* the steps of a batch that has started
RetryStep(r) ==
    \/ getStoryById(r)
    \/ /\ run[r].pc = "analyzeWithOpenAI"
       /\ \E o \in OutcomesFor(scamStories[run[r].cur].postId) :
              callAnalyzeWithOpenAI(r, o)
    \/ \E geo \in GeoResults : geocodeAndNormalize(r, geo)
    \/ updateStoryWithAnalysis(r)
    \/ updateCommentAnalysis(r)
    \/ updateLocationStats(r)
    \/ markAsNotScam(r)
    \/ markProcessingErrorAgain(r)

\* two unprocessed stories in either order, the model configured
InitRetry ==
    /\ \/ InitStored(<<"p1", "p2">>, {"job1"})
       \/ InitStored(<<"p2", "p1">>, {"job1"})
    /\ llmConfigured

NextRetry ==
    \/ \E r \in Runners, limit \in Limits :
           processBatchAgain(r, limit) /\ UNCHANGED otherThanEnrich
    \/ \E r \in Runners : RetryStep(r) /\ UNCHANGED otherThanEnrich

\* every invocation runs to its return and another one follows
FairRetry == InitRetry /\ [][NextRetry]_vars /\ WF_vars(NextRetry)

\* the same with every invocation leaving limit at its default
NextRetryDefault ==
    \/ \E r \in Runners : processBatchAgain(r, <<>>) /\ UNCHANGED otherThanEnrich
    \/ \E r \in Runners : RetryStep(r) /\ UNCHANGED otherThanEnrich

FairRetryDefault == InitRetry /\ [][NextRetryDefault]_vars /\ WF_vars(NextRetryDefault)

-----------------------------------------------------------------------------
(* Incidents reported in comments                                           *)
(*                                                                          *)
(* analyzeCommentsForScams walks stories and their unanalyzed comments; a   *)
(* comment that passes its heuristic is classified, geocoded and counted in *)
(* locationStats without a story of its own.  The counters it returns       *)
(* (scamsFound, errors, totalUnanalyzed) are reporting only and are not     *)
(* kept.                                                                    *)

\* analyzeCommentsForScams: args.limit || 10
DefaultCommentLimit == 10
\* analyzeCommentsForScams: Math.min(200, commentsToAnalyze * 20)
MaxCommentStories == 200
StoriesPerComment == 20
\* analyzeCommentsForScams: analysis.confidence > 0.6, in tenths
MinCommentConfidence == 6
\* getStoryComments: args.limit || 1000
DefaultCommentTake == 1000

\* getProcessedStoriesForCommentAnalysis
getProcessedStoriesForCommentAnalysis(limit) ==
    Take(InOrder({k \in 1..Len(scamStories) : scamStories[k].isProcessed}), limit)

\* getStoryComments with onlyUnanalyzed: true
getUnanalyzedComments(sid, limit) ==
    Take(InOrder({k \in 1..Len(scamComments) :
                     /\ scamComments[k].storyId = sid
                     /\ scamComments[k].isAnalyzedForScam \in {"false", "undefined"}}),
         IF limit = 0 THEN DefaultCommentTake ELSE limit)

\* a heuristic that looks at the length only
anyLongComment(content) == content \in {"long_story", "long_advice"}

\* analyzeCommentsForScams: the heuristic (longer than 200 characters and
\* one of its keywords)
mightBeScamStory(content) == content = "long_story"

\* the head of the loop over the stories: the break on the limit, the next
\* story, or the return of the job
NextCommentStory(rec) ==
    IF rec.queue = <<>> \/ rec.processed >= rec.limit
    THEN Idle
    ELSE [Idle EXCEPT !.job = "analyzeCommentsForScams",
                      !.pc = "getStoryComments",
                      !.queue = Tail(rec.queue), !.cur = Head(rec.queue),
                      !.processed = rec.processed, !.limit = rec.limit]

\* the head of the loop over the comments of a story: processed++ and the
\* heuristic on the next comment, or the next story
NextComment(rec) ==
    IF rec.comments = <<>> THEN NextCommentStory(rec)
    ELSE [Idle EXCEPT !.job = "analyzeCommentsForScams",
                      !.queue = rec.queue, !.cur = rec.cur,
                      !.comments = Tail(rec.comments), !.com = Head(rec.comments),
                      !.processed = rec.processed + 1, !.limit = rec.limit,
                      !.pc = IF mightBeScamStory(CommentContent(
                                    scamComments[Head(rec.comments)].redditCommentId))
                             THEN "analyzeCommentWithOpenAI"
                             ELSE "markCommentAnalyzed"]

\* a classified comment counted with no geocoding at all
CountAtOnce(a) ==
    IF a.isScamStory /\ a.confidence > MinCommentConfidence
    THEN "updateLocationStatsWithCoordinates"
    ELSE "markCommentAnalyzed"

\* analyzeCommentsForScams: what follows the classification of a comment
AfterCommentClassification(a) ==
    IF a.isScamStory /\ a.confidence > MinCommentConfidence
    THEN IF a.country # "Unknown"
         THEN "geocodeCommentLocation"
         ELSE "updateLocationStatsWithCoordinates"
    ELSE "markCommentAnalyzed"

\* analyzeCommentsForScams: the query for the stories, then the loop
analyzeCommentsForScams(r, storyId, limit) ==
    /\ run[r].pc = "idle"
    /\ runsStarted < MaxRuns
    /\ runsStarted' = runsStarted + 1
    /\ LET commentsToAnalyze == IF limit = <<>> \/ limit[1] = 0
                                THEN DefaultCommentLimit ELSE limit[1]
           stories == IF storyId # <<>>
                      THEN <<storyId[1]>>
                      ELSE getProcessedStoriesForCommentAnalysis(
                               Min(MaxCommentStories,
                                   commentsToAnalyze * StoriesPerComment))
       IN run' = [run EXCEPT ![r] =
                     NextCommentStory([Idle EXCEPT !.queue = stories,
                                                   !.limit = commentsToAnalyze])]
    /\ UNCHANGED <<scamStories, scamComments, locationStats, ret>>

\* analyzeCommentsForScams: the unanalyzed comments of the story, as many as
\* the limit still allows
getStoryCommentsUnanalyzed(r) ==
    /\ run[r].pc = "getStoryComments"
    /\ run' = [run EXCEPT ![r] =
                  NextComment([@ EXCEPT !.comments =
                                  getUnanalyzedComments(run[r].cur,
                                                        run[r].limit - run[r].processed)])]
    /\ UNCHANGED <<scamStories, scamComments, locationStats, ret, runsStarted>>

\* analyzeCommentsForScams: analyzeWithOpenAI on the comment; what it throws
\* is caught and counted, and the loop goes on
analyzeCommentWithOpenAI(r, o) ==
    /\ run[r].pc = "analyzeCommentWithOpenAI"
    /\ LET a == analyzeWithOpenAI(llmConfigured, o)
       IN run' = [run EXCEPT ![r] =
                     IF a.threw THEN NextComment(@)
                     ELSE [@ EXCEPT !.llm = a.llm,
                                    !.analysis = a.analysis,
                                    !.coordinates = scamStories[run[r].cur].coordinates,
                                    !.calls = Append(@, "analyzeWithOpenAI"),
                                    !.pc = AfterCommentClassification(a.analysis)]]
    /\ UNCHANGED <<scamStories, scamComments, locationStats, ret, runsStarted>>

\* analyzeCommentsForScams: geocodeAndNormalize for the comment's location;
\* only the coordinates are taken from the answer
geocodeCommentLocation(r, geo) ==
    /\ run[r].pc = "geocodeCommentLocation"
    /\ run' = [run EXCEPT ![r] =
                  [@ EXCEPT !.coordinates = IF geo.success /\ geo.coordinates # <<>>
                                            THEN geo.coordinates ELSE @,
                            !.calls = Append(@, "geocodeAndNormalize"),
                            !.pc = "updateLocationStatsWithCoordinates"]]
    /\ UNCHANGED <<scamStories, scamComments, locationStats, ret, runsStarted>>

\* updateLocationStatsWithCoordinates (its validator throws on a scamType
\* outside the literals; the error is caught and counted)
updateLocationStatsWithCoordinates(r) ==
    /\ run[r].pc = "updateLocationStatsWithCoordinates"
    /\ LET a == run[r].analysis
           story == scamStories[run[r].cur]
       IN IF a.scamType \notin ScamTypes
          THEN /\ run' = [run EXCEPT ![r] = NextComment(@)]
               /\ UNCHANGED locationStats
          ELSE /\ locationStats' =
                     StatsAfter(locationStats, a.country,
                                IF a.city # <<>> THEN a.city ELSE story.city,
                                a.scamType, a.moneyLost, run[r].coordinates)
               /\ run' = [run EXCEPT ![r] =
                             [@ EXCEPT !.calls = Append(@, "updateLocationStatsWithCoordinates"),
                                       !.pc = "markCommentScam"]]
    /\ UNCHANGED <<scamStories, scamComments, ret, runsStarted>>

\* analyzeCommentsForScams: updateCommentAnalysis on the comment, with true
\* and true for a counted incident and false and false otherwise
markCommentAnalyzed(r) ==
    /\ run[r].pc \in {"markCommentScam", "markCommentAnalyzed"}
    /\ scamComments' =
          [scamComments EXCEPT ![run[r].com] =
              [@ EXCEPT !.isHelpful = (run[r].pc = "markCommentScam"),
                        !.containsAdvice = (run[r].pc = "markCommentScam"),
                        !.isAnalyzedForScam = "true"]]
    /\ run' = [run EXCEPT ![r] = NextComment(@)]
    /\ UNCHANGED <<scamStories, locationStats, ret, runsStarted>>

\* the optional storyId argument
StoryIdArgs == {<<>>} \cup {<<k>> : k \in 1..Len(scamStories)}

\* one stored post with two comments, the second telling of an incident
InitWork ==
    /\ InitQuiet
    /\ scamStories = <<NewStory("p1")>>
    /\ scamComments = <<NewRawComment(1, "c1"), NewScrapedComment(1, "c3")>>
    /\ locationStats = <<>>
    /\ ret = [op |-> "none", arg |-> "", result |-> "void"]
    /\ fb = NoBatch
    /\ visits = <<>>
    /\ run = [r \in {"job1"} |-> Idle]
    /\ llmConfigured \in BOOLEAN
    /\ runsStarted = 0

NextWork ==
    \/ NextEnrich
    \/ \E r \in Runners, storyId \in StoryIdArgs, limit \in Limits :
           analyzeCommentsForScams(r, storyId, limit) /\ UNCHANGED otherThanEnrich
    \/ \E r \in Runners : getStoryCommentsUnanalyzed(r) /\ UNCHANGED otherThanEnrich
    \/ \E r \in Runners, o \in LlmOutcomes :
           analyzeCommentWithOpenAI(r, o) /\ UNCHANGED otherThanEnrich
    \/ \E r \in Runners, geo \in GeoResults :
           geocodeCommentLocation(r, geo) /\ UNCHANGED otherThanEnrich
    \/ \E r \in Runners : updateLocationStatsWithCoordinates(r) /\ UNCHANGED otherThanEnrich
    \/ \E r \in Runners : markCommentAnalyzed(r) /\ UNCHANGED otherThanEnrich

SpecWork == InitWork /\ [][NextWork]_vars

-----------------------------------------------------------------------------
(* Claims about the ingestion store *)

RowsWithPostId(p) ==
    Cardinality({k \in 1..Len(scamStories) : scamStories[k].postId = p})

\* C1: whatever the sequence of storeRawPost and storeScrapedPost calls,
\* scamStories holds at most one row per postId, and a storeRawPost call
\* returns inserted=true exactly when no row with that postId existed before
\* the call (and inserted=false otherwise).
C1_IdempotentIngestion ==
    [][/\ \A p \in PostIds : RowsWithPostId(p)' <= 1
       /\ ret'.op = "storeRawPost" =>
            /\ ret'.result \in {"inserted", "not_inserted"}
            /\ ret'.result = "inserted" <=>
                   FirstStoryByPostId(scamStories, ret'.arg) = 0]_vars

\* a second storeRawPost of a post that storeScrapedPost stored reports
\* "not inserted", with one row for each of the two posts
C1_Witness ==
    /\ ret = [op |-> "storeRawPost", arg |-> "p1", result |-> "not_inserted"]
    /\ RowsWithPostId("p1") = 1
    /\ RowsWithPostId("p2") = 1

\* the comments of one post, as fetchPostComments hands them to
\* storeBatchComments (every item carries the postId of the fetch)
OfOnePost(batch) == \A k \in 1..Len(batch) : batch[k].postId = batch[1].postId

\* C22: every scamComments row references a scamStories row that exists, and
\* a comment whose post has no stored story is not stored and raises no
\* error, by storeRawComment, storeScrapedComment and storeBatchComments.
C22_NoOrphanComments ==
    [][/\ \A k \in 1..Len(scamComments') :
             scamComments'[k].storyId \in 1..Len(scamStories')
       /\ \A c \in CommentIds, p \in PostIds :
             (/\ storeRawComment(c, p) \/ storeScrapedComment(c, p)
              /\ FirstStoryByPostId(scamStories, p) = 0)
                => scamComments' = scamComments /\ ret'.result # "threw"
       /\ \A b \in Batches :
             (/\ b # <<>>
              /\ OfOnePost(b)
              /\ storeBatchComments(b)
              /\ FirstStoryByPostId(scamStories, b[1].postId) = 0)
                => scamComments' = scamComments /\ ret'.result # "threw"
      ]_vars

\* one post is stored with a comment, and a batch of comments of the other
\* post, which is not stored, has just been dropped
C22_Witness ==
    /\ ret.op = "storeBatchComments"
    /\ ret.arg = "p2"
    /\ FirstStoryByPostId(scamStories, "p2") = 0
    /\ FirstStoryByPostId(scamStories, "p1") = 1
    /\ Len(scamComments) = 1
    /\ scamComments[1].storyId = 1

\* C2: after any sequence of storeBatchComments, storeRawComment and
\* storeScrapedComment calls, no two scamComments rows have the same
\* (storyId, redditCommentId).
C2_NoDuplicateComments ==
    \A i, j \in 1..Len(scamComments) :
        i # j => \/ scamComments[i].storyId # scamComments[j].storyId
                 \/ scamComments[i].redditCommentId # scamComments[j].redditCommentId

-----------------------------------------------------------------------------
(* Claims about the aggregator *)

RECURSIVE SumCounts(_)
SumCounts(top) == IF top = <<>> THEN 0 ELSE Head(top).count + SumCounts(Tail(top))

\* C10: after any sequence of updateLocationStatsMutation and
\* updateLocationStatsMutationWithCoordinates calls for a location, its
\* topScamTypes list has at most 5 entries, is sorted by count descending,
\* and the sum of its counts is at most totalScams.
C10_BoundedTopTypes ==
    \A k \in 1..Len(locationStats) :
        LET row == locationStats[k]
            top == row.topScamTypes
        IN /\ Len(top) <= 5
           /\ \A i \in 1..(Len(top) - 1) : top[i].count >= top[i + 1].count
           /\ SumCounts(top) <= row.totalScams

\* a sixth category was recorded for a location whose list was full: five
\* entries are kept and their counts sum to less than totalScams
C10_Witness ==
    \E k \in 1..Len(locationStats) :
        /\ Len(locationStats[k].topScamTypes) = 5
        /\ SumCounts(locationStats[k].topScamTypes) < locationStats[k].totalScams

-----------------------------------------------------------------------------
(* Claims about the batch scheduler *)

\* C3: starting with fetchBatch(0, s) and calling fetchBatch again with each
\* returned nextBatch until nextBatch is 0, fetchRedditPosts is invoked for
\* every (subreddit, keyword) pair of the matrix exactly once.
C3_EveryPairExactlyOnce ==
    fb.pc = "done" => \A pr \in Pairs(fb) : visits[pr] = 1

\* C4: when fetchBatch stops early on MAX_RUNTIME, continuing from the
\* nextBatch it returned visits every work unit of the interrupted batch
\* that was not yet visited.
C4_ResumeCoversInterrupted ==
    fb.pc = "done" => \A i \in fb.interrupted : visits[PairOf(fb, i)] >= 1

\* averageLoss as a number: an absent value counts as 0
\* C23: once a locationStats row has coordinates, no call of
\* updateLocationStatsMutation or updateLocationStatsMutationWithCoordinates
\* changes them, whatever coordinates the call brings: the first win.
C23_FirstCoordinatesWin ==
    [][\A k \in 1..Len(locationStats) :
          locationStats[k].coordinates # <<>>
              => /\ k <= Len(locationStats')
                 /\ locationStats'[k].coordinates = locationStats[k].coordinates
      ]_vars

\* a row that got its coordinates from one call and was updated by others
C23_Witness ==
    \E k \in 1..Len(locationStats) :
        /\ locationStats[k].coordinates = <<"geo1">>
        /\ locationStats[k].totalScams >= 3

LossOf(averageLoss) == IF averageLoss = <<>> THEN 0 ELSE averageLoss[1]

\* C12: when an incident with a loss amount is recorded for a location that
\* already has a row, the new averageLoss is oldAvg + (amount - oldAvg)/2;
\* with no loss amount, averageLoss is unchanged.
C12_RunningAverageLoss ==
    [][\A loc \in Locations, t \in IncidentTypes, m \in Losses :
          LET k == FirstStat(locationStats, loc[1], loc[2])
          IN (/\ k > 0
              /\ locationStats' = StatsAfter(locationStats, loc[1], loc[2], t, m, <<>>))
               => locationStats'[k].averageLoss =
                     IF m = <<>> THEN locationStats[k].averageLoss
                     ELSE LET oldAvg == LossOf(locationStats[k].averageLoss)
                          IN <<oldAvg + ((m[1] - oldAvg) \div 2)>>]_vars

-----------------------------------------------------------------------------
(* Claims about the source client and the job table *)

\* C13: when the search request gets a 429, exactly one retry request is
\* made, after the cooldown, with a limit no larger than the limit of the
\* first request; and when the retry gets a non-2xx status too,
\* fetchRedditPosts returns success=false and does not throw.
C13_OneReducedRetry ==
    [][(fr.pc = "return" /\ fr'.pc = "idle" /\ fr.requests[1].status = 429)
         => /\ Len(fr.requests) = 2
            /\ fr.requests[2].waited >= Cooldown
            /\ fr.requests[2].limit <= fr.requests[1].limit
            /\ ~Ok(fr.requests[2].status) /\ fr.requests[2].status # 0
                 => ret'.result = "failure"]_vars

\* C14: when a fetchRedditPosts invocation ends, whichever path it took, the
\* redditFetchJobs row of its pair exists, with status completed if the
\* invocation returned success and failed if it did not.
C14_JobRowTellsOutcome ==
    [][(fr.pc = "return" /\ fr'.pc = "idle")
         => LET k == FirstJob(redditFetchJobs', fr.pair[1], fr.pair[2])
            IN /\ k > 0
               /\ redditFetchJobs'[k].status =
                     IF ret'.result = "success" THEN "completed" ELSE "failed"]_vars

\* postsProcessed of the row of a pair, 0 when there is no row
PostsProcessedOf(jobs, pair) ==
    LET k == FirstJob(jobs, pair[1], pair[2])
    IN IF k = 0 THEN 0 ELSE jobs[k].postsProcessed

\* C31: postsProcessed of a redditFetchJobs row is cumulative: the
\* updateFetchJobStatus at the end of a fetchRedditPosts invocation leaves it
\* at what it was plus the posts this invocation processed (none on the
\* failure path), and it never decreases.
C31_PostsProcessedIsCumulative ==
    [][(fetchCompleted \/ fetchCatch) =>
          LET before == PostsProcessedOf(redditFetchJobs, fr.pair)
              now == PostsProcessedOf(redditFetchJobs', fr.pair)
          IN /\ now = before + (IF fr.pc = "completed" THEN fr.postsInserted ELSE 0)
             /\ now >= before
      ]_vars

\* C32: every request fetchRedditPosts and fetchPostComments send (search,
\* retry, comments of a post) is preceded by a delay: no request is sent
\* with no wait since the one before it.
C32_EveryRequestAfterADelay ==
    fr.pc \notin {"off", "idle"} =>
        \A k \in 1..Len(fr.requests) : fr.requests[k].waited > 0

\* the part of C32 that is about the search and the retry request
SearchRequestsAfterADelay ==
    fr.pc \notin {"off", "idle"} =>
        \A k \in 1..Len(fr.requests) :
            fr.requests[k].limit # CommentFetchLimit => fr.requests[k].waited > 0

\* the requests the running invocation has sent, each with the seconds
\* waited since the one before it
RequestsSent == IF "requests" \in DOMAIN fr THEN fr.requests ELSE <<>>

\* C33: after a 429 response from the discussion platform, the per-post
\* comment endpoint included, no further request is sent before a cooldown
\* wait has elapsed.
C33_CooldownAfterEvery429 ==
    \A k \in 1..(Len(RequestsSent) - 1) :
        RequestsSent[k].status = 429 => RequestsSent[k + 1].waited >= Cooldown

\* the stories whose thread has comments to give
FetchableStories == {k \in 1..Len(scamStories) : scamStories[k].postId \notin DeadPosts}

\* every invocation leaves maxCommentsPerPost at its default, and none runs
\* out of time: what keeps a story without comments is its thread alone
NoSkipNoTimeout ==
    /\ [](fr.pc \in {"loop", "return"} => fr.maxComments = DefaultMaxComments)
    /\ [](elapsed <= CommentsMaxRuntime)

\* C39: under repeated fetchCommentsForExistingPosts invocations every
\* stored story whose comments can be fetched eventually has its comments
\* stored: the stories for which a fetch stores nothing do not keep a later
\* story from being selected.
C39_EveryFetchableStoryGetsComments ==
    NoSkipNoTimeout => \A k \in 1..2 : <>(k \in FetchableStories => HasComments(k))

\* the part of C39 that is about the invocations that leave limit at its
\* default, with fewer stories without comments than that
DefaultLimitReachesAll ==
    (NoSkipNoTimeout /\ [](fr.pc \in {"loop", "return"} => fr.limit = DefaultCommentPosts))
        => \A k \in 1..2 : <>(k \in FetchableStories => HasComments(k))

\* the rows of a story that hold the comment with this text
RowsOfText(sid, text) ==
    {k \in 1..Len(scamComments) :
        scamComments[k].storyId = sid /\ scamComments[k].redditCommentId.of = text}

\* C35: scraping the same post URL again with scrapeRedditPostInternal adds
\* no scamComments row for a comment that is already stored: each comment
\* of a post is stored once.
C35_ScrapedCommentStoredOnce ==
    \A sid \in 1..Len(scamStories), text \in {"x", "y"} :
        Cardinality(RowsOfText(sid, text)) <= 1

\* the part of C35 that is about one scrape: the rows of one comment come
\* from different scrapes
OneScrapeStoresOnce ==
    \A sid \in 1..Len(scamStories), text \in {"x", "y"} :
        \A k, m \in RowsOfText(sid, text) :
            k # m => scamComments[k].redditCommentId.at # scamComments[m].redditCommentId.at

\* C36: when scrapeRedditPostInternal has stored a newly scraped post and
\* returns, it has invoked analyzeScamStory for that story in the same
\* invocation.
C36_ScrapeTriggersAnalysis ==
    [][(scrapeAnalysis /\ ret'.wasNew) =>
          /\ ret'.calls # <<>>
          /\ ret'.calls[Len(ret'.calls)] = "analyzeScamStory"]_vars

-----------------------------------------------------------------------------
(* Claims about the geocoder *)

InDelhiBox(c) == Abs(c.lat - 286000) <= 50000 /\ Abs(c.lng - 772000) <= 50000
InLombokBox(c) == Abs(c.lat - (-86500)) <= 20000 /\ Abs(c.lng - 1163000) <= 20000

\* C16: whatever the geocoder answers, resolving city Delhi with country
\* India gives no coordinates outside the box around (28.6, 77.2), and
\* Lombok with Indonesia none outside the box around (-8.65, 116.3), also
\* when analyzeScamStory calls with the location string it builds.
C16_HomonymsCorrected ==
    (/\ geocall.pc = "done"
     /\ geocall.caller \in {"geocodeAndNormalize", "analyzeScamStory"}
     /\ geocall.result # <<>>)
      => /\ (trim(toLowerCase(geocall.city)) = toLowerCase(Delhi) /\ geocall.country = India)
              => InDelhiBox(geocall.result[1])
         /\ (trim(toLowerCase(geocall.city)) = toLowerCase(Lombok)
                /\ geocall.country = Indonesia)
              => InLombokBox(geocall.result[1])

-----------------------------------------------------------------------------
(* Claims about the enrichment engine *)

\* C26: no read query over scamStories (getScamStories,
\* getScamStoriesForGlobe, getTrendingScams, searchScamStories) returns a
\* story with isProcessed=false.
C26_ReadQueriesSeeProcessedOnly ==
    [][ReadQuery =>
          \A k \in 1..Len(ret'.result) : scamStories[ret'.result[k]].isProcessed
      ]_vars

\* the part of C26 that is about the three queries other than
\* searchScamStories
FilteredQueriesSeeProcessedOnly ==
    [][(ReadQuery /\ ret'.op # "searchScamStories") =>
          \A k \in 1..Len(ret'.result) : scamStories[ret'.result[k]].isProcessed
      ]_vars

\* C25: a long-running batch action compares the elapsed time with a ceiling
\* before each work unit and starts no work unit once the ceiling is
\* exceeded (here processUnanalyzedStoriesBatch, a work unit being one
\* analyzeScamStory call, against the ceiling fetchBatch uses).
C25_NoWorkUnitPastCeiling ==
    [][\A r \in Runners :
          (/\ run'[r].job = "processUnanalyzedStoriesBatch"
           /\ run'[r].pc = "getStoryById"
           /\ run[r].pc # "getStoryById")
              => elapsed <= MAX_RUNTIME
      ]_vars

\* the request that was just answered went out to Mapbox
ExternalCall(resp) == resp.kind # "no_token"

\* C37: for a deterministic geocoder, geocodeLocation with its cache
\* returns on every call what the same call returns with no cache, for the
\* same (location, countryHint) and over any call sequence.
C37_CacheIsTransparent ==
    ret.op = "geocodeLocation" => ret.result = ret.uncached

\* the part of C37 that is about repeating a call: a result that differs
\* from the uncached one comes from an entry another input has filled
RepeatedCallIsTransparent ==
    (ret.op = "geocodeLocation" /\ ret.result # ret.uncached)
        => ret.filledBy # ret.arg

\* C24: within one process, a resolution of a location that geocodeLocation,
\* or geocodeAndNormalize, has resolved with a result before makes no
\* external geocoder call.
C24_SecondResolutionFromCache ==
    [][\A resp \in GeoResponses :
          /\ (geocodeLocationAnswered(resp) /\ ExternalCall(resp))
                => <<"geocodeLocation", cacheKey(geocall.location)>> \notin recorded
          /\ (geocodeAndNormalizeAnswered(resp) /\ ExternalCall(resp))
                => <<"geocodeAndNormalize", cacheKey(geocall.location)>> \notin recorded
      ]_vars

\* the part of C24 that is about geocodeLocation
GeocodeLocationFromCache ==
    [][\A resp \in GeoResponses :
          (geocodeLocationAnswered(resp) /\ ExternalCall(resp))
              => <<"geocodeLocation", cacheKey(geocall.location)>> \notin recorded
      ]_vars

\* C17: when the model endpoint, key or model identifier is not configured,
\* the failure is not recorded as a per-record error: no story has a
\* processingErrors entry (and the batch does not report success).
C17_MissingConfigIsNotPerRecord ==
    ~llmConfigured =>
        \A k \in 1..Len(scamStories) : scamStories[k].processingErrors = <<>>

C6_ErrorLeavesUnprocessedAndCounted ==
    [][\A r \in Runners :
          (run[r].pc = "markProcessingError" /\ run'[r] # run[r])
            => LET before == scamStories[run[r].cur]
                   after == scamStories'[run[r].cur]
               IN /\ after.isProcessed = FALSE
                  /\ after.processingAttempts = before.processingAttempts + 1
                  /\ after.processingErrors =
                         Append(before.processingErrors, run[r].error)]_vars

\* C34: under repeated processUnanalyzedStoriesBatch invocations a story
\* whose enrichment errors on every attempt does not block the others:
\* every other unprocessed story, whose enrichment can succeed, is
\* eventually processed.
C34_BadStoryDoesNotBlock ==
    \A k \in 1..2 :
        <>(scamStories[k].postId \notin BadPosts => scamStories[k].isProcessed)

\* C7: a story whose enrichment has errored MaxCutoff times is not selected
\* again by processUnanalyzedStories or processUnanalyzedStoriesBatch.
C7_CutoffStopsRetries ==
    [][\A r \in Runners :
          (/\ run[r].pc = "idle"
           /\ run'[r].job \in {"processUnanalyzedStories",
                               "processUnanalyzedStoriesBatch"})
            => \A s \in Selected(run'[r]) :
                   Len(scamStories[s].processingErrors) < MaxCutoff]_vars

\* which state of its life cycle a story is in
TerminalState(story) ==
    IF ~story.isProcessed THEN "unprocessed"
    ELSE IF story.aiConfidenceScore = 0 THEN "not_incident"
    ELSE "incident"

\* C8: once a story is processed/incident or processed/not-incident, no step
\* other than resetStoryForReprocessing makes it unprocessed or moves it to
\* the other of the two states, whatever the interleaving of invocations.
C8_TerminalStateIsKept ==
    [][\A s \in 1..Len(scamStories) :
          TerminalState(scamStories[s]) # "unprocessed"
            => \/ TerminalState(scamStories'[s]) = TerminalState(scamStories[s])
               \/ \E r \in Runners :
                     /\ run[r].pc = "resetStoryForReprocessing"
                     /\ run[r].cur = s
                     /\ run'[r].pc = "getStoryById"]_vars

\* C9: however the invocations of the jobs overlap or repeat, a story is
\* counted at most once in totalScams: the incidents recorded over all
\* locations are no more than the stories there are.
C9_CountedAtMostOnce ==
    TotalRecorded(locationStats) <= Len(scamStories)

\* totalScams of the row updateLocationStatsMutation finds for a location,
\* 0 when there is none
TotalScamsOf(stats, country, city) ==
    LET k == FirstStat(stats, country, city)
    IN IF k = 0 THEN 0 ELSE stats[k].totalScams

\* the steps of analyzeScamStory before its call of updateLocationStats
BeforeAggregation ==
    {"getStoryById", "analyzeWithOpenAI", "geocodeAndNormalize",
     "updateStoryWithAnalysis", "updateCommentAnalysis"}

\* C18: for an unprocessed story the classifier calls a taxi incident in
\* Bangkok, Thailand and the geocoder answers with coordinates and the
\* canonical names Bangkok and Thailand, analyzeScamStory leaves
\* locationStats alone up to its call of updateLocationStats, and that call
\* leaves the story processed with scamType taxi and those coordinates and
\* the (Thailand, Bangkok) row with totalScams exactly 1 higher than before.
C18_TaxiInBangkokIsCounted ==
    [][\A r \in Runners :
          /\ (run[r].pc \in BeforeAggregation /\ run'[r] # run[r])
                => locationStats' = locationStats
          /\ (/\ run[r].pc = "updateLocationStats"
              /\ run'[r] # run[r]
              /\ run[r].analysis.isScamStory
              /\ run[r].analysis.scamType = "taxi"
              /\ run[r].analysis.country = "Thailand"
              /\ run[r].analysis.city = <<"Bangkok">>
              /\ run[r].coordinates = <<"geo1">>)
                => /\ ret' = Returned(run[r].cur, "scam", "ok")
                   /\ scamStories'[run[r].cur].isProcessed
                   /\ scamStories'[run[r].cur].scamType = "taxi"
                   /\ scamStories'[run[r].cur].coordinates = <<"geo1">>
                   /\ TotalScamsOf(locationStats', "Thailand", <<"Bangkok">>)
                         = TotalScamsOf(locationStats, "Thailand", <<"Bangkok">>) + 1
      ]_vars

\* analyzeScamStory has returned for the first story, a taxi incident in
\* Bangkok: the story and the (Thailand, Bangkok) row after it
C18_Witness ==
    /\ ret = Returned(1, "scam", "ok")
    /\ scamStories[1].isProcessed
    /\ scamStories[1].scamType = "taxi"
    /\ scamStories[1].country = "Thailand"
    /\ scamStories[1].coordinates = <<"geo1">>
    /\ ~scamStories[2].isProcessed
    /\ Len(locationStats) = 1
    /\ TotalScamsOf(locationStats, "Thailand", <<"Bangkok">>) = 1

\* the count the row of (country, city) holds for a category, 0 when there is
\* no such row or no such entry
CountOf(stats, country, city, scamType) ==
    LET k == FirstStat(stats, country, city)
    IN IF k = 0 THEN 0
       ELSE LET e == FindType(stats[k].topScamTypes, scamType)
            IN IF e = 0 THEN 0 ELSE stats[k].topScamTypes[e].count

\* the stories updateStoryWithAnalysis has stored a classification for
\* (markAsNotScam writes no summary)
IncidentStories ==
    {k \in 1..Len(scamStories) :
        scamStories[k].isProcessed /\ scamStories[k].summary # ""}

\* C28: once no job invocation is in the middle of a story, each story with
\* isProcessed=true that was classified as an incident has contributed one
\* count to the locationStats row keyed by its stored (country, city), in
\* the category that is its stored scamType: that row counts, for that
\* category, at least as many incidents as there are such stories.
C28_IncidentsAreCounted ==
    (\A r \in Runners : run[r].pc = "idle") =>
        \A k \in IncidentStories :
            CountOf(locationStats, scamStories[k].country, scamStories[k].city,
                    scamStories[k].scamType)
              >= Cardinality({m \in IncidentStories :
                                /\ scamStories[m].country = scamStories[k].country
                                /\ scamStories[m].city = scamStories[k].city
                                /\ scamStories[m].scamType = scamStories[k].scamType})

\* the classification fields of a story are what storeRawPost inserted
AtDefaults(story) ==
    /\ story.summary = ""
    /\ story.country = "Unknown"
    /\ story.scamType = "other"
    /\ story.aiConfidenceScore = 0
    /\ story.coordinates = <<>>

\* C29: a story with isProcessed=false has its classification fields at
\* their defaults (empty summary, country "Unknown", scamType other,
\* aiConfidenceScore 0, no coordinates), also after
\* resetStoryForReprocessing.
C29_UnprocessedIsAtDefaults ==
    \A k \in 1..Len(scamStories) :
        ~scamStories[k].isProcessed => AtDefaults(scamStories[k])

\* the part of C29 that is about every step but resetStoryForReprocessing:
\* no other step leaves an unprocessed story away from its defaults that
\* was not so before
OnlyResetLeavesClassified ==
    [][\A k \in 1..Len(scamStories) :
          (/\ ~scamStories'[k].isProcessed
           /\ ~AtDefaults(scamStories'[k])
           /\ (scamStories[k].isProcessed \/ AtDefaults(scamStories[k])))
             => \E r \in Runners : resetStoryForReprocessing(r)]_vars

\* C19: when the classifier answers isScamStory=false, analyzeScamStory goes
\* on to markAsNotScam without a write, and markAsNotScam leaves the story
\* isProcessed=true with aiConfidenceScore=0 and every locationStats row as
\* it was.
C19_NotScamIsNotAggregated ==
    [][\A r \in Runners :
          /\ (/\ run[r].pc = "analyzeWithOpenAI"
              /\ run'[r] # run[r]
              /\ run'[r].llm = "ok"
              /\ ~run'[r].analysis.isScamStory)
                => /\ run'[r].pc = "markAsNotScam"
                   /\ scamStories' = scamStories
                   /\ locationStats' = locationStats
          /\ (/\ run[r].pc = "markAsNotScam"
              /\ run'[r] # run[r]
              /\ run[r].llm = "ok")
                => /\ ret' = Returned(run[r].cur, "not_scam", "ok")
                   /\ scamStories'[run[r].cur].isProcessed
                   /\ scamStories'[run[r].cur].aiConfidenceScore = 0
                   /\ locationStats' = locationStats
      ]_vars

\* the first story was counted, then the classifier said of the second that
\* it is no incident: the second is processed with score 0 and the one row
\* still counts one incident
C19_Witness ==
    /\ ret = Returned(2, "not_scam", "ok")
    /\ scamStories[2].isProcessed
    /\ scamStories[2].aiConfidenceScore = 0
    /\ Len(locationStats) = 1
    /\ locationStats[1].totalScams = 1

\* the orders in which the work on one record can have made its calls
CallOrders ==
    {<<>>, <<"analyzeWithOpenAI">>, <<"analyzeWithOpenAI", "geocodeAndNormalize">>}
        \cup {<<"analyzeWithOpenAI", a>> :
                 a \in {"updateLocationStats", "updateLocationStatsWithCoordinates"}}
        \cup {<<"analyzeWithOpenAI", "geocodeAndNormalize", a>> :
                 a \in {"updateLocationStats", "updateLocationStatsWithCoordinates"}}

\* the steps of the work on one record between its classification and
\* geocoding and its LocationStat update
ReadyToAggregate ==
    {"updateStoryWithAnalysis", "updateCommentAnalysis", "updateLocationStats",
     "updateLocationStatsWithCoordinates"}

\* C20: for one record, in analyzeScamStory and in the comment path of
\* analyzeCommentsForScams, the classification call has completed before the
\* geocoding call starts and the geocoding call, made when the country is
\* known, has completed before the LocationStat update starts.
C20_ClassifyGeocodeAggregate ==
    \A r \in Runners :
        /\ run[r].calls \in CallOrders
        /\ run[r].pc \in ReadyToAggregate
              => run[r].calls = IF run[r].analysis.country # "Unknown"
                                THEN <<"analyzeWithOpenAI", "geocodeAndNormalize">>
                                ELSE <<"analyzeWithOpenAI">>

\* an incident told in a comment was counted, then the story itself:
\* analyzeScamStory has made its three calls and the row counts two
C20_Witness ==
    /\ runsStarted = 2
    /\ run["job1"].calls =
          <<"analyzeWithOpenAI", "geocodeAndNormalize", "updateLocationStats">>
    /\ TotalScamsOf(locationStats, "Thailand", <<"Bangkok">>) = 2
    /\ scamStories[1].isProcessed

-----------------------------------------------------------------------------
(* Claims about comment analysis *)

\* the comment of row k is at most 200 characters long or has none of the
\* incident and money keywords
FailsHeuristic(k) ==
    CommentContent(scamComments[k].redditCommentId) \in {"long_advice", "plain"}

\* C21: in analyzeCommentsForScams a comment that fails the heuristic is not
\* sent to the model, ends with isAnalyzedForScam=true, and is not returned
\* by the unanalyzed-comment query afterwards; no step takes the flag back.
C21_UnlikelyCommentsMarkedNotSent ==
    [][/\ \A r \in Runners :
            (/\ run[r].job = "analyzeCommentsForScams"
             /\ run[r].com # 0
             /\ FailsHeuristic(run[r].com)
             /\ run'[r] # run[r])
                => /\ run[r].pc = "markCommentAnalyzed"
                   /\ run[r].calls = <<>>
                   /\ run[r].llm = "none"
                   /\ scamComments'[run[r].com].isAnalyzedForScam = "true"
                   /\ locationStats' = locationStats
                   /\ \A k \in 1..Len(getUnanalyzedComments(run[r].cur, 0)') :
                          (getUnanalyzedComments(run[r].cur, 0)')[k] # run[r].com
       /\ \A k \in 1..Len(scamComments) :
            scamComments[k].isAnalyzedForScam = "true"
                => scamComments'[k].isAnalyzedForScam = "true"
      ]_vars

\* the first comment, which fails the heuristic, was examined by
\* analyzeCommentsForScams while its story is still unprocessed
C21_Witness ==
    /\ ~scamStories[1].isProcessed
    /\ FailsHeuristic(1)
    /\ scamComments[1].isAnalyzedForScam = "true"
    /\ ~scamComments[1].isHelpful
    /\ \A k \in 1..Len(getUnanalyzedComments(1, 0)) : getUnanalyzedComments(1, 0)[k] # 1

\* C30: no step of analyzeScamStory on a story changes isAnalyzedForScam of
\* a comment: the flag is set only by the comment analysis of
\* analyzeCommentsForScams.
C30_StoryAnalysisKeepsCommentFlags ==
    [][\A r \in Runners :
          StoryStep(r) =>
             \A k \in 1..Len(scamComments) :
                 scamComments'[k].isAnalyzedForScam = scamComments[k].isAnalyzedForScam
      ]_vars

\* C38: regeocodeAllStories terminates for every geocoder behaviour,
\* including when geocoding fails for every story of a fetched page of 20
\* stories without coordinates.
C38_RegeocodeTerminates == <>(fr.pc = "returned")

\* regeocodeAllStories terminates when no request of the geocoder comes back
\* without a feature
RegeocodeTerminatesWithoutFailure ==
    [](geocall.last # "empty") => <>(fr.pc = "returned")

\* regeocodeAllStories terminates when the table has fewer rows than a page
RegeocodeTerminatesOnShortTable ==
    Len(scamStories) < RegeocodePage => <>(fr.pc = "returned")

ReportsOf(reports, storyId) == {k \in 1..Len(reports) : reports[k].storyId = storyId}

\* C40: in every reachable state a story's reportCount equals the number of
\* userReports rows for it, and there is at most one userReports row per
\* (user, story): a second reportStory by the same user for the same story
\* throws "Already reported this story" and changes no state.
C40_OneReportPerUserAndStory ==
    /\ [](\A storyId \in 1..Len(scamStories) :
             scamStories[storyId].reportCount
                 = Cardinality(ReportsOf(userReports, storyId)))
    /\ [](\A j, k \in 1..Len(userReports) :
             (/\ userReports[j].storyId = userReports[k].storyId
              /\ userReports[j].userId = userReports[k].userId) => j = k)
    /\ [][\A identity \in Identities, storyId \in 1..Len(scamStories),
            reportType \in ReportTypes :
              (/\ reportStory(identity, storyId, reportType)
               /\ identity # <<>>
               /\ FirstUser(identity[1]) # 0
               /\ FirstReport(userReports, storyId, FirstUser(identity[1])) # 0)
              => /\ ret'.result = "threw"
                 /\ ret'.message = "Already reported this story"
                 /\ UNCHANGED <<scamStories, userReports>>]_vars

\* a second report of a story by a user that has reported it was made and
\* was refused
C40_Witness ==
    /\ ret.op = "reportStory"
    /\ ret.result = "threw"
    /\ ret.message = "Already reported this story"
    /\ Len(userReports) >= 2
    /\ \E storyId \in 1..Len(scamStories) : scamStories[storyId].reportCount = 2

=============================================================================
